---------------------------- MODULE Spec2Model ----------------------------
(***************************************************************************)
(* Model of the scheduled posting agent of src/src/post_x.js (the variant  *)
(* src/Code.gs has the same coordinator, selector and thread publisher,    *)
(* without media upload and with a shifted column layout).                 *)
(*                                                                         *)
(* Text cells are sequences of one-character strings so that trim(),       *)
(* toLowerCase(), parseInt() and the URL pattern are computed, not assumed. *)
(* Time is in milliseconds since CONFIG.serialBaseDate (local midnight).    *)
(***************************************************************************)
EXTENDS Integers, Sequences, FiniteSets, TLC

VARIABLES sheet, now, props, config, trigger, lockHolder, pc, loc, calls,
          nextId, runs, outcome, preview, counted, refresh

vars == <<sheet, now, props, config, trigger, lockHolder, pc, loc, calls,
          nextId, runs, outcome, preview, counted, refresh>>

-----------------------------------------------------------------------------
(* Bounds of the model *)

MaxRows == 2

MaxRuns == 2

NumInvocations == 2

SelRows == 2

-----------------------------------------------------------------------------
(* CONFIG (post_x.js 44-128) *)

dataStartRow == 2

colContent == 1

colCharCount == 2

colImage == 3

colNoteUrl == 4

colDay == 5

colHour == 6

colMinute == 7

colPostedUrl == 8

colThreadGroupId == 9

colStatus == 10

toleranceMinutes == 5

urlLength == 23

freeCharacterLimit == 140

paidCharacterLimit == 25000

maxImages == 4

MinuteMs == 60 * 1000

HourMs == 60 * MinuteMs

DayMs == 24 * HourMs

statusPending == <<"p", "e", "n", "d", "i", "n", "g">>

statusPosting == <<"p", "o", "s", "t", "i", "n", "g">>

statusPosted == <<"p", "o", "s", "t", "e", "d">>

statusFailed == <<"f", "a", "i", "l", "e", "d">>

-----------------------------------------------------------------------------
(* String primitives of the language runtime, over character sequences *)

IsSpace(c) == c \in {" ", "\t", "\n"}

RECURSIVE TrimStart(_)
TrimStart(s) ==
  IF s = <<>> THEN <<>>
  ELSE IF IsSpace(Head(s)) THEN TrimStart(Tail(s)) ELSE s

RECURSIVE TrimEnd(_)
TrimEnd(s) ==
  IF s = <<>> THEN <<>>
  ELSE IF IsSpace(s[Len(s)]) THEN TrimEnd(SubSeq(s, 1, Len(s) - 1)) ELSE s

Trim(s) == TrimEnd(TrimStart(s))

LowerChar(c) ==
  CASE c = "A" -> "a" [] c = "D" -> "d" [] c = "E" -> "e" [] c = "F" -> "f"
    [] c = "G" -> "g" [] c = "H" -> "h" [] c = "I" -> "i" [] c = "L" -> "l"
    [] c = "N" -> "n" [] c = "O" -> "o" [] c = "P" -> "p" [] c = "S" -> "s"
    [] c = "T" -> "t"
    [] OTHER -> c

ToLowerCase(s) == [k \in 1..Len(s) |-> LowerChar(s[k])]

Digits == {"0", "1", "2", "3", "4", "5", "6", "7", "8", "9"}

DigitVal(c) ==
  CASE c = "0" -> 0 [] c = "1" -> 1 [] c = "2" -> 2 [] c = "3" -> 3
    [] c = "4" -> 4 [] c = "5" -> 5 [] c = "6" -> 6 [] c = "7" -> 7
    [] c = "8" -> 8 [] c = "9" -> 9

NaN == [nan |-> TRUE, n |-> 0]

Num(n) == [nan |-> FALSE, n |-> n]

RECURSIVE DigitPrefix(_, _, _)
\* value of the longest prefix of decimal digits of s; seen = a digit was read
DigitPrefix(s, acc, seen) ==
  IF s # <<>> /\ Head(s) \in Digits
  THEN DigitPrefix(Tail(s), acc * 10 + DigitVal(Head(s)), TRUE)
  ELSE IF seen THEN Num(acc) ELSE NaN

\* parseInt(s, 10): leading white space, optional sign, longest digit prefix
ParseInt(s) ==
  LET t == TrimStart(s) IN
  IF t = <<>> THEN NaN
  ELSE IF Head(t) = "-"
       THEN LET r == DigitPrefix(Tail(t), 0, FALSE)
            IN IF r.nan THEN NaN ELSE Num(0 - r.n)
       ELSE IF Head(t) = "+" THEN DigitPrefix(Tail(t), 0, FALSE)
       ELSE DigitPrefix(t, 0, FALSE)


-----------------------------------------------------------------------------
(* Cell values of the sheet.  A data row is the tuple of its cells 1..10.   *)
(* The day cell is a tagged value: blank, a number (in tenths, so 25 is     *)
(* 2.5), a Date (ms), or a free-form string with the ms it parses to (or    *)
(* -1 when Date parsing gives an Invalid Date).  The note cell carries its  *)
(* rich-text link, the URL of its HYPERLINK formula and its plain value.    *)
(* The image cell holds the number of blobs the cell resolves to.  The      *)
(* result cell (postedUrl) holds nothing, a tweet URL or a message.         *)

DayBlank == [t |-> "blank", v |-> 0]

DayNum(tenths) == [t |-> "num", v |-> tenths]

DayDate(ms) == [t |-> "date", v |-> ms]

DayStr(ms) == [t |-> "str", v |-> ms]

NoResult == [kind |-> "empty", id |-> 0, msg |-> ""]

UrlOf(tweetId) == [kind |-> "url", id |-> tweetId, msg |-> ""]

MsgOf(m) == [kind |-> "msg", id |-> 0, msg |-> m]

NullDate == [ok |-> FALSE, ms |-> 0]

DateAt(ms) == [ok |-> TRUE, ms |-> ms]

\* sheet.getRange(dataStartRow, 1, rowCount, numColumns).getValues()
getValues(sh, numColumns) == [k \in 1..Len(sh) |-> SubSeq(sh[k], 1, numColumns)]

\* String(row[column - 1] || ''): a column outside the range read is undefined
CellText(row, column) == IF column \in DOMAIN row THEN row[column] ELSE <<>>

RowAt(sh, rowNumber) == sh[rowNumber - dataStartRow + 1]

-----------------------------------------------------------------------------
(* DueRowSelector: findNextPublishableRow_ *)

extractUrlFromCell_(cell) ==
  IF cell.link # <<>> THEN cell.link
  ELSE IF cell.formula # <<>> THEN cell.formula
  ELSE Trim(cell.value)

\* copy.setHours(0, 0, 0, 0)
Midnight(ms) == ms - (ms % DayMs)

baseDate(dayValue) ==
  CASE dayValue.t = "date" -> DateAt(Midnight(dayValue.v))
    [] dayValue.t = "num" ->
         IF dayValue.v < 10 THEN NullDate
         ELSE DateAt((dayValue.v \div 10) * DayMs)
    [] OTHER ->
         IF dayValue.v < 0 THEN NullDate ELSE DateAt(Midnight(dayValue.v))

parseTimeCell(value, max) ==
  IF value = <<>> THEN Num(0)
  ELSE LET parsed == ParseInt(Trim(value))
       IN IF parsed.nan \/ parsed.n < 0 \/ parsed.n > max THEN NaN ELSE parsed

scheduledAtOf(dayValue, hourValue, minuteValue) ==
  IF dayValue.t = "blank" THEN NullDate
  ELSE LET base == baseDate(dayValue)
           hourParsed == parseTimeCell(hourValue, 23)
           minuteParsed == parseTimeCell(minuteValue, 59)
       IN IF ~base.ok THEN NullDate
          ELSE IF hourParsed.nan \/ minuteParsed.nan THEN NullDate
          ELSE DateAt(base.ms + hourParsed.n * HourMs + minuteParsed.n * MinuteMs)

toleranceMs == toleranceMinutes * 60 * 1000

\* a selector that skips posted rows only
IsPostedOnly(status) == status = statusPosted

IsProcessedStatus(status) == status = statusPosted \/ status = statusPosting

\* a window that is open at its upper end
TooLateAtBound(scheduledTime, t) == scheduledTime >= t + toleranceMs

TooLate(scheduledTime, t) == scheduledTime > t + toleranceMs

\* a window with no lower end
TooOldNever(scheduledTime, t) == FALSE

TooOld(scheduledTime, t) == scheduledTime < t - toleranceMs

NoTarget ==
  [rowNumber |-> 0, content |-> <<>>, noteUrl |-> <<>>,
   scheduledAt |-> NullDate, threadGroupId |-> <<>>]

\* one iteration of the scan: TRUE when the row at index is returned
RowIsTarget(sh, values, index, t) ==
  LET row == values[index]
      content == Trim(CellText(row, colContent))
      status == ToLowerCase(Trim(CellText(row, colStatus)))
      scheduledAt == scheduledAtOf(row[colDay], row[colHour], row[colMinute])
  IN /\ content # <<>>
     /\ ~IsProcessedStatus(status)
     /\ scheduledAt.ok
     /\ ~TooLate(scheduledAt.ms, t)
     /\ ~TooOld(scheduledAt.ms, t)

TargetOf(sh, values, index) ==
  LET row == values[index]
  IN [rowNumber |-> dataStartRow + index - 1,
      content |-> Trim(CellText(row, colContent)),
      noteUrl |-> extractUrlFromCell_(sh[index][colNoteUrl]),
      scheduledAt |-> scheduledAtOf(row[colDay], row[colHour], row[colMinute]),
      threadGroupId |-> Trim(CellText(row, colThreadGroupId))]

RECURSIVE ScanForLast(_, _, _, _)
\* a scan in which a later eligible row replaces an earlier one
ScanForLast(sh, values, index, t) ==
  IF index > Len(values) THEN NoTarget
  ELSE LET later == ScanForLast(sh, values, index + 1, t)
       IN IF later.rowNumber # 0 THEN later
          ELSE IF RowIsTarget(sh, values, index, t) THEN TargetOf(sh, values, index)
          ELSE NoTarget

RECURSIVE ScanFrom(_, _, _, _)
ScanFrom(sh, values, index, t) ==
  IF index > Len(values) THEN NoTarget
  ELSE IF RowIsTarget(sh, values, index, t) THEN TargetOf(sh, values, index)
  ELSE ScanFrom(sh, values, index + 1, t)

\* a selector that resumes its scan after the row it reported last
findNextAfterReported(sh, t) ==
  ScanFrom(sh, getValues(sh, colStatus),
           IF preview.row.rowNumber = 0 THEN 1
           ELSE preview.row.rowNumber - dataStartRow + 2, t)

findNextPublishableRow_(sh, t) == ScanFrom(sh, getValues(sh, colStatus), 1, t)

\* previewNextScheduledRow: null when nothing is due, else the selector's row
previewNextScheduledRow(sh, t) ==
  LET nextRow == findNextPublishableRow_(sh, t)
  IN IF nextRow.rowNumber = 0 THEN NoTarget ELSE nextRow

-----------------------------------------------------------------------------
(* CharacterCounter: countTwitterCharacters_.  "HS" and "LS" stand for the  *)
(* high and low code unit of a surrogate pair.                              *)

\* the characters of prefix stand at position k of s, whatever their case
AtNoCase(s, k, prefix) ==
  /\ k + Len(prefix) - 1 <= Len(s)
  /\ \A i \in 1..Len(prefix) : LowerChar(s[k + i - 1]) = prefix[i]

\* length of the match of /https?:\/\// at position k of s, 0 if none
SchemeLenAt(s, k) ==
  IF AtNoCase(s, k, <<"h", "t", "t", "p", "s", ":", "/", "/">>) THEN 8
  ELSE IF AtNoCase(s, k, <<"h", "t", "t", "p", ":", "/", "/">>) THEN 7
  ELSE 0

\* /https?:\/\/[^\s]+/i can match at position k: a scheme and one more character
UrlStartAt(s, k) ==
  LET n == SchemeLenAt(s, k)
  IN n > 0 /\ k + n <= Len(s) /\ ~IsSpace(s[k + n])

\* the positions of s at which the pattern can match; a match starts with h or H
UrlStarts(s) ==
  {k \in {x \in 1..Len(s) : s[x] \in {"h", "H"}} : UrlStartAt(s, k)}

\* position j lies in a match of the global pattern: [^\s]+ is greedy, so the
\* leftmost match of a run of non-space characters runs to the end of that run
InUrl(s, starts, j) ==
  \E k \in starts : k <= j /\ \A i \in k..j : ~IsSpace(s[i])

\* processedText.match(urlPattern).length (0 when there is no match)
UrlCount(s, starts) ==
  Cardinality({k \in starts : k = 1 \/ ~InUrl(s, starts, k - 1)})

\* the positions of s left by processedText.replace(urlPattern, '')
KeptPositions(s, starts) == {j \in 1..Len(s) : ~InUrl(s, starts, j)}

\* processedText.length: every code unit counts, paired or not
CodePointsAsUnits(s, kept) == Cardinality(kept)

\* Array.from(processedText).length: a high unit directly followed by a low
\* unit is one element, every other code unit is one element
CodePoints(s, kept) ==
  LET pairs == {j \in kept :
                  /\ s[j] = "HS"
                  /\ \E x \in kept : /\ x > j
                                     /\ s[x] = "LS"
                                     /\ \A y \in kept : y > j => y >= x}
  IN Cardinality(kept) - Cardinality(pairs)

\* text.length: the addresses are counted like any other text
countWithoutUrlWeight(text) == Len(text)

countTwitterCharacters_(text) ==
  IF text = <<>> THEN 0
  ELSE LET starts == UrlStarts(text)
       IN CodePoints(text, KeptPositions(text, starts))
          + UrlCount(text, starts) * urlLength

\* getXPlanConfig().limits.characterLimit for the saved xPlanType property
getXPlanConfig(xPlanType) ==
  IF xPlanType \in {"basic", "premium"} THEN paidCharacterLimit
  ELSE freeCharacterLimit

-----------------------------------------------------------------------------
(* RowStore writes *)

StatusWrite(rowNumber, status) ==
  [row |-> rowNumber, col |-> colStatus, status |-> status, result |-> NoResult]

ResultWrite(rowNumber, result) ==
  [row |-> rowNumber, col |-> colPostedUrl, status |-> <<>>, result |-> result]

\* a setRowStatus_ that leaves out the posting mark
setRowStatusUnmarked(rowNumber, status, errorMessage) ==
  IF status = statusPosting THEN <<>>
  ELSE <<StatusWrite(rowNumber, status)>> \o
       (IF status = statusFailed /\ errorMessage # ""
        THEN <<ResultWrite(rowNumber, MsgOf(errorMessage))>> ELSE <<>>)

\* a setRowStatus_ that never records the error detail
setRowStatusOnly(rowNumber, status, errorMessage) ==
  <<StatusWrite(rowNumber, status)>>

\* a setRowStatus_ that does nothing when asked to mark a row failed
setRowStatusUnfailed(rowNumber, status, errorMessage) ==
  IF status = statusFailed THEN <<>> ELSE <<StatusWrite(rowNumber, status)>>

\* the setValue calls of setRowStatus_, in order
setRowStatus_(rowNumber, status, errorMessage) ==
  <<StatusWrite(rowNumber, status)>> \o
  (IF status = statusFailed /\ errorMessage # ""
   THEN <<ResultWrite(rowNumber, MsgOf(errorMessage))>> ELSE <<>>)

\* a publisher that marks the row posted before it stores the URL
SuccessWritesStatusFirst(rowNumber, tweetId) ==
  <<StatusWrite(rowNumber, statusPosted), ResultWrite(rowNumber, UrlOf(tweetId))>>

\* lines 961-962 and 1060-1061: the URL goes to the result field, then the
\* row is marked posted
SuccessWrites(rowNumber, tweetId) ==
  <<ResultWrite(rowNumber, UrlOf(tweetId))>>
    \o setRowStatus_(rowNumber, statusPosted, "")

\* a write that never reaches the sheet
setValueDropped(sh, w) == sh

\* sheet.getRange(row, col).setValue(value)
setValue(sh, w) ==
  [sh EXCEPT ![w.row - dataStartRow + 1] =
     [@ EXCEPT ![w.col] = IF w.col = colStatus THEN w.status ELSE w.result]]

\* a resolver that returns every image of the cell
getImagesUncapped(sh, rowNumber) == RowAt(sh, rowNumber)[colImage]

\* getImagesFromCell_(...).length: at most 4 blobs
getImagesFromCell_(sh, rowNumber) ==
  LET n == RowAt(sh, rowNumber)[colImage]
  IN IF n > maxImages THEN maxImages ELSE n

-----------------------------------------------------------------------------
(* ThreadPublisher: findThreadGroupRows_.  The range read ends at the       *)
(* threadGroupId column, so the status column lies outside the values read. *)

RECURSIVE CollectThreadRows(_, _, _)
CollectThreadRows(values, threadGroupId, index) ==
  IF index > Len(values) THEN <<>>
  ELSE LET row == values[index]
           content == Trim(CellText(row, colContent))
           status == ToLowerCase(Trim(CellText(row, colStatus)))
           rowThreadGroupId == Trim(CellText(row, colThreadGroupId))
           rest == CollectThreadRows(values, threadGroupId, index + 1)
       IN IF rowThreadGroupId = threadGroupId
             /\ ~IsProcessedStatus(status)
             /\ content # <<>>
          THEN <<[rowNumber |-> dataStartRow + index - 1, content |-> content]>>
               \o rest
          ELSE rest

\* a resolver that leaves out the rows of the group without a schedule of
\* their own
findScheduledThreadRows(sh, threadGroupId) ==
  SelectSeq(CollectThreadRows(getValues(sh, colThreadGroupId), threadGroupId, 1),
            LAMBDA r : scheduledAtOf(RowAt(sh, r.rowNumber)[colDay],
                                     RowAt(sh, r.rowNumber)[colHour],
                                     RowAt(sh, r.rowNumber)[colMinute]).ok)

ThreadRangeColumns == colThreadGroupId

findThreadGroupRows_(sh, threadGroupId) ==
  CollectThreadRows(getValues(sh, ThreadRangeColumns), threadGroupId, 1)

-----------------------------------------------------------------------------
(* The stores and inputs the model runs on *)

Invocations == 1..NumInvocations

Hi == <<"h", "i">>

LongText == [k \in 1..(freeCharacterLimit + 1) |-> "a"]

GroupG == <<"g">>

LinkUrl == <<"h", "t", "t", "p", "s", ":", "/", "/", "n">>

NoNote == [link |-> <<>>, formula |-> <<>>, value |-> <<>>]

NoteValue == [link |-> <<>>, formula |-> <<>>, value |-> <<" ">> \o LinkUrl]

NoteLink == [link |-> LinkUrl, formula |-> <<>>, value |-> <<"n">>]

NoteFormula == [link |-> <<>>, formula |-> LinkUrl, value |-> <<"n">>]

\* day 2 at 12:00 and ten minutes later
T0 == 2 * DayMs + 12 * HourMs

T1 == T0 + 10 * MinuteMs

Row(content, image, note, day, hour, minute, result, group, status) ==
  <<content, 0, image, note, day, hour, minute, result, group, status>>

DueAtT0(content, image, note, result, group, status) ==
  Row(content, image, note, DayNum(20), <<"1", "2">>, <<>>, result, group, status)

DueAtT1(content, image, note, result, group, status) ==
  Row(content, image, note, DayNum(20), <<"1", "2">>, <<"1", "0">>, result, group,
      status)

Unscheduled(content, image, note, result, group, status) ==
  Row(content, image, note, DayBlank, <<>>, <<>>, result, group, status)

\* tweet ids below FirstId belong to posts made before the model starts
FirstId == 10

RowTemplates ==
  { DueAtT0(Hi, 0, NoNote, NoResult, <<>>, <<>>),
    DueAtT0(Hi, 2, NoteValue, NoResult, <<>>, statusPending),
    DueAtT0(LongText, 0, NoNote, NoResult, <<>>, <<>>),
    DueAtT1(Hi, 0, NoNote, MsgOf("api error"), <<>>, statusFailed),
    DueAtT0(Hi, 0, NoteLink, NoResult, GroupG, <<>>),
    Unscheduled(Hi, 1, NoNote, NoResult, <<" ">> \o GroupG, <<>>),
    DueAtT1(LongText, 0, NoNote, NoResult, GroupG, statusPending),
    DueAtT0(Hi, 0, NoNote, UrlOf(1), GroupG, <<" ", "P", "o", "s", "t", "e", "d">>),
    DueAtT0(<<" ">>, 0, NoNote, NoResult, GroupG, <<>>) }

RECURSIVE SheetsOfLen(_, _)
SheetsOfLen(templates, n) ==
  IF n = 0 THEN {<<>>}
  ELSE {Append(sh, r) : sh \in SheetsOfLen(templates, n - 1), r \in templates}

Sheets == UNION {SheetsOfLen(RowTemplates, n) : n \in 1..MaxRows}

\* CONFIG.characterLimit as shipped, and the other settings the code supports
Configs ==
  { [enabled |-> TRUE, skipOnExceed |-> TRUE],
    [enabled |-> TRUE, skipOnExceed |-> FALSE],
    [enabled |-> FALSE, skipOnExceed |-> TRUE] }

\* script properties: the four credentials present or not, and xPlanType
Properties ==
  { [credentials |-> TRUE, xPlanType |-> ""],
    [credentials |-> FALSE, xPlanType |-> ""],
    [credentials |-> TRUE, xPlanType |-> "basic"] }

Settings ==
  { <<c, q>> \in Configs \X Properties :
      (c.enabled /\ c.skipOnExceed) \/ (q.credentials /\ q.xPlanType = "") }

Times == {T0, T1}

\* what the preview entry point last reported, and the clock reading it used
NoReport == [called |-> FALSE, at |-> 0, row |-> NoTarget]

\* before is the report of the call that preceded the last one
NoPreview == [called |-> FALSE, at |-> 0, row |-> NoTarget, before |-> NoReport]

\* the last character count made: its argument and the value returned
NoCount == [called |-> FALSE, input |-> [defined |-> FALSE, text |-> <<>>], result |-> 0]

\* the engagement refresh: where it stands, the targets it collected, the
\* 1-based position of the loop, its two counters, the requests made for each
\* target and the targets whose fields were written
NoRefresh ==
  [pc |-> "idle", targetRows |-> <<>>, i |-> 0, successCount |-> 0, failCount |-> 0,
   requests |-> <<>>, written |-> {}]

InitLoc ==
  [hasLock |-> FALSE, target |-> NoTarget, threadRows |-> <<>>, i |-> 0,
   previousTweetId |-> 0, resultId |-> 0, imageCount |-> 0, j |-> 0,
   mediaIds |-> <<>>, writes |-> <<>>, applied |-> <<>>, error |-> FALSE]

\* the stores on which the trigger fires overlapping invocations
ContendedSheets ==
  { <<DueAtT0(Hi, 0, NoNote, NoResult, <<>>, <<>>)>>,
    <<DueAtT0(Hi, 0, NoteLink, NoResult, GroupG, <<>>),
      Unscheduled(Hi, 1, NoNote, NoResult, <<" ">> \o GroupG, <<>>)>>,
    <<Unscheduled(Hi, 1, NoNote, NoResult, <<>>, <<>>)>> }

ShippedConfig == [enabled |-> TRUE, skipOnExceed |-> TRUE]

Init ==
  /\ trigger \in {"serial", "overlapping"}
  /\ IF trigger = "serial"
     THEN /\ sheet \in Sheets
          /\ \E st \in Settings : config = st[1] /\ props = st[2]
     ELSE /\ sheet \in ContendedSheets
          /\ config = ShippedConfig
          /\ props \in {q \in Properties : q.xPlanType = ""}
  /\ now = T0
  /\ lockHolder = 0
  /\ pc = [p \in Invocations |-> "idle"]
  /\ loc = [p \in Invocations |-> InitLoc]
  /\ calls = [p \in Invocations |-> <<>>]
  /\ nextId = FirstId
  /\ runs = 0
  /\ outcome = [p \in Invocations |-> "none"]
  /\ preview = NoPreview
  /\ counted = NoCount
  /\ refresh = NoRefresh

-----------------------------------------------------------------------------
(* PostingClient and pacing events of each invocation's current run *)

PublishEvent(rowNumber, text, replyTo, mediaIds, ok, id) ==
  [op |-> "publish", row |-> rowNumber, text |-> text, replyTo |-> replyTo,
   media |-> mediaIds, ok |-> ok, id |-> id]

UploadEvent(rowNumber, blob, ok) ==
  [op |-> "upload", row |-> rowNumber, text |-> <<>>, replyTo |-> 0,
   media |-> <<blob>>, ok |-> ok, id |-> 0]

\* a wait that returns at once and leaves no delay behind
NoDelayEvent ==
  [op |-> "none", row |-> 0, text |-> <<>>, replyTo |-> 0, media |-> <<>>,
   ok |-> TRUE, id |-> 0]

SleepEvent ==
  [op |-> "sleep", row |-> 0, text |-> <<>>, replyTo |-> 0, media |-> <<>>,
   ok |-> TRUE, id |-> 0]

\* publishers that never check the length
LimitVerdictOff(content) == "ok"

\* a policy under which a row over the limit always ends the run
LimitVerdictAlwaysFatal(content) ==
  IF ~config.enabled THEN "ok"
  ELSE IF countTwitterCharacters_(content) > getXPlanConfig(props.xPlanType)
       THEN "fatal"
       ELSE "ok"

\* a policy under which a count equal to the maximum is over the limit
LimitVerdictExclusive(content) ==
  IF ~config.enabled THEN "ok"
  ELSE IF countTwitterCharacters_(content) >= getXPlanConfig(props.xPlanType)
       THEN IF config.skipOnExceed THEN "skip" ELSE "fatal"
       ELSE "ok"

\* the character-limit policy of both publishers: "ok", "skip" or "fatal"
LimitVerdict(content) ==
  IF ~config.enabled THEN "ok"
  ELSE IF countTwitterCharacters_(content) > getXPlanConfig(props.xPlanType)
       THEN IF config.skipOnExceed THEN "skip" ELSE "fatal"
       ELSE "ok"

Set(p, changes) == loc' = [loc EXCEPT ![p] = changes]

Log(p, log, event) == [calls EXCEPT ![p] = Append(log, event)]

-----------------------------------------------------------------------------
(* RunCoordinator: postNextScheduledToX *)

\* the external trigger starts an invocation, at most maxRuns times in all
InvokeUpTo(p, maxRuns) ==
  /\ pc[p] = "idle"
  /\ runs < maxRuns
  /\ trigger = "serial" => p = 1 /\ \A q \in Invocations : pc[q] = "idle"
  /\ runs' = runs + 1
  /\ pc' = [pc EXCEPT ![p] = "tryLock"]
  /\ loc' = [loc EXCEPT ![p] = InitLoc]
  /\ outcome' = [outcome EXCEPT ![p] = "running"]
  /\ calls' = [calls EXCEPT ![p] = <<>>]
  /\ UNCHANGED <<sheet, now, props, config, trigger, lockHolder, nextId, preview,
                 counted, refresh>>

Invoke(p) == InvokeUpTo(p, MaxRuns)

\* a coordinator that ignores the result of tryLock
AfterTryLockIgnored(hasLock) == "find"

\* lines 854-857: a run without the lock returns at once
AfterTryLock(hasLock) == IF hasLock THEN "find" ELSE "finally"

\* lock.tryLock(...) returns true: the lock was free or became free in time
TryLockAcquired(p) ==
  /\ pc[p] = "tryLock"
  /\ lockHolder = 0
  /\ lockHolder' = p
  /\ pc' = [pc EXCEPT ![p] = AfterTryLock(TRUE)]
  /\ Set(p, [loc[p] EXCEPT !.hasLock = TRUE])
  /\ UNCHANGED <<sheet, now, props, config, trigger, calls, nextId, runs, outcome,
                 preview, counted, refresh>>

\* lock.tryLock(...) returns false: the lock stayed held for the whole wait
TryLockTimedOut(p) ==
  /\ pc[p] = "tryLock"
  /\ lockHolder # 0
  /\ pc' = [pc EXCEPT ![p] = AfterTryLock(FALSE)]
  /\ UNCHANGED <<sheet, now, props, config, trigger, lockHolder, loc, calls, nextId, runs,
                 outcome, preview, counted, refresh>>

\* a coordinator that hands every row to the single-row publisher
DispatchSingle(target) == "single"

\* lines 884-888: a row with a threadGroupId goes to postThreadGroup_
Dispatch(target) == IF target.threadGroupId # <<>> THEN "thread" ELSE "single"

\* findNextPublishableRow_, the credentials check and the dispatch; new Date()
\* reads one of the given instants
FindTargetAt(p, instants) ==
  /\ pc[p] = "find"
  /\ \E t \in instants :
       /\ t >= now
       /\ now' = t
       /\ LET target == findNextPublishableRow_(sheet, t)
          IN IF target.rowNumber = 0
             THEN /\ pc' = [pc EXCEPT ![p] = "finally"]
                  /\ UNCHANGED loc
             ELSE IF ~props.credentials
             THEN /\ pc' = [pc EXCEPT ![p] = "finally"]
                  /\ Set(p, [loc[p] EXCEPT !.target = target, !.error = TRUE])
             ELSE /\ pc' = [pc EXCEPT ![p] = Dispatch(target)]
                  /\ Set(p, [loc[p] EXCEPT !.target = target])
  /\ UNCHANGED <<sheet, props, config, trigger, lockHolder, calls, nextId, runs, outcome,
                 preview, counted, refresh>>

FindTarget(p) == FindTargetAt(p, Times)

\* a finally block that leaves the lock held
releaseLockSkipped(holder, p) == holder

\* a releaseLock that frees the lock whoever holds it
releaseLockOfAnyone(holder, p) == 0

\* lock.releaseLock(): frees the lock only when this invocation holds it
releaseLock(holder, p) == IF holder = p THEN 0 ELSE holder

\* the finally block
Finally(p) ==
  /\ pc[p] = "finally"
  /\ loc[p].writes = <<>>
  /\ lockHolder' = releaseLock(lockHolder, p)
  /\ pc' = [pc EXCEPT ![p] = "exit"]
  /\ UNCHANGED <<sheet, now, props, config, trigger, loc, calls, nextId, runs, outcome,
                 preview, counted, refresh>>

\* a coordinator whose catch block does not rethrow
ExitSwallowing(p) ==
  /\ pc[p] = "exit"
  /\ pc' = [pc EXCEPT ![p] = "idle"]
  /\ outcome' = [outcome EXCEPT ![p] = "ok"]
  /\ UNCHANGED <<sheet, now, props, config, trigger, lockHolder, loc, calls, nextId, runs,
                 preview, counted, refresh>>

\* the invocation ends: it returns, or the rethrown error reaches the trigger
Exit(p) ==
  /\ pc[p] = "exit"
  /\ pc' = [pc EXCEPT ![p] = "idle"]
  /\ outcome' = [outcome EXCEPT ![p] = IF loc[p].error THEN "error" ELSE "ok"]
  /\ UNCHANGED <<sheet, now, props, config, trigger, lockHolder, loc, calls, nextId, runs,
                 preview, counted, refresh>>

\* one pending setValue call of the running publisher reaches the sheet;
\* loc.applied keeps the calls of the run that have reached it, in order
SetValue(p) ==
  /\ loc[p].writes # <<>>
  /\ sheet' = setValue(sheet, Head(loc[p].writes))
  /\ Set(p, [loc[p] EXCEPT !.writes = Tail(@),
                              !.applied = Append(@, Head(loc[p].writes))])
  /\ UNCHANGED <<now, props, config, trigger, lockHolder, pc, calls, nextId, runs, outcome,
                 preview, counted, refresh>>

-----------------------------------------------------------------------------
(* SinglePostPublisher: postSingleRow_ *)

\* lines 904-937: empty-content check, posting mark, character-limit policy
SingleStart(p) ==
  /\ pc[p] = "single"
  /\ loc[p].writes = <<>>
  /\ LET rowNumber == loc[p].target.rowNumber
         content == loc[p].target.content
         verdict == LimitVerdict(content)
         message == "length exceeded"
         images == getImagesFromCell_(sheet, rowNumber)
     IN IF content = <<>>
        THEN /\ Set(p, [loc[p] EXCEPT
                  !.writes = setRowStatus_(rowNumber, statusFailed, "content empty")])
             /\ pc' = [pc EXCEPT ![p] = "finally"]
        ELSE IF verdict # "ok"
        THEN /\ Set(p, [loc[p] EXCEPT
                  !.writes = setRowStatus_(rowNumber, statusPosting, "")
                             \o setRowStatus_(rowNumber, statusFailed, message),
                  !.error = (verdict = "fatal")])
             /\ pc' = [pc EXCEPT ![p] = "finally"]
        ELSE /\ Set(p, [loc[p] EXCEPT
                  !.writes = setRowStatus_(rowNumber, statusPosting, ""),
                  !.imageCount = images, !.j = 0, !.mediaIds = <<>>])
             /\ pc' = [pc EXCEPT ![p] = IF images > 0 THEN "s_media" ELSE "s_post"]
  /\ UNCHANGED <<sheet, now, props, config, trigger, lockHolder, calls, nextId, runs,
                 outcome, preview, counted, refresh>>

\* one uploadMediaToTwitter_ call of the upload loop; a failure is only logged
SingleUpload(p) ==
  /\ pc[p] = "s_media"
  /\ loc[p].writes = <<>>
  /\ \E ok \in BOOLEAN :
       LET blob == loc[p].j + 1
       IN /\ calls' = Log(p, calls[p], UploadEvent(loc[p].target.rowNumber, blob, ok))
          /\ Set(p, [loc[p] EXCEPT
               !.j = blob,
               !.mediaIds = IF ok THEN Append(@, blob) ELSE @])
          /\ pc' = [pc EXCEPT ![p] =
                      IF blob = loc[p].imageCount THEN "s_post" ELSE "s_media"]
  /\ UNCHANGED <<sheet, now, props, config, trigger, lockHolder, nextId, runs, outcome,
                 preview, counted, refresh>>

\* a publisher that calls publish again after a failure
AfterSinglePublishRetry(ok, noteUrl) ==
  IF ~ok THEN "s_post" ELSE IF noteUrl # <<>> THEN "s_note" ELSE "finally"

\* a publisher that posts the link reply whether or not the publish succeeded
AfterSinglePublishAlwaysNote(ok, noteUrl) ==
  IF noteUrl # <<>> THEN "s_note" ELSE "finally"

\* lines 966 and 975-979: the link reply follows a successful publish of a row
\* with a noteUrl; a failure leaves the function through the catch block
AfterSinglePublish(ok, noteUrl) ==
  IF ok /\ noteUrl # <<>> THEN "s_note" ELSE "finally"

\* postSingleTweet_(content, null, credentials, mediaIds) and what follows it
SinglePost(p) ==
  /\ pc[p] = "s_post"
  /\ loc[p].writes = <<>>
  /\ \E ok \in BOOLEAN :
       LET rowNumber == loc[p].target.rowNumber
           content == loc[p].target.content
       IN IF ok
          THEN /\ calls' = Log(p, calls[p], PublishEvent(rowNumber, content, 0,
                                                     loc[p].mediaIds, TRUE, nextId))
               /\ nextId' = nextId + 1
               /\ Set(p, [loc[p] EXCEPT
                    !.resultId = nextId,
                    !.writes = SuccessWrites(rowNumber, nextId)])
               /\ pc' = [pc EXCEPT ![p] =
                           AfterSinglePublish(TRUE, loc[p].target.noteUrl)]
          ELSE /\ calls' = Log(p, calls[p], PublishEvent(rowNumber, content, 0,
                                                     loc[p].mediaIds, FALSE, 0))
               /\ nextId' = nextId
               /\ Set(p, [loc[p] EXCEPT
                    !.writes = setRowStatus_(rowNumber, statusFailed, "api error"),
                    !.error = TRUE])
               /\ pc' = [pc EXCEPT ![p] =
                           AfterSinglePublish(FALSE, loc[p].target.noteUrl)]
  /\ UNCHANGED <<sheet, now, props, config, trigger, lockHolder, runs, outcome, preview,
                 counted, refresh>>

\* postSingleTweet_(noteUrl, result.tweetId, credentials); a failure is only logged
SingleNote(p) ==
  /\ pc[p] = "s_note"
  /\ loc[p].writes = <<>>
  /\ \E ok \in BOOLEAN :
       /\ calls' = Log(p, calls[p], PublishEvent(0, loc[p].target.noteUrl,
                                              loc[p].resultId, <<>>, ok,
                                              IF ok THEN nextId ELSE 0))
       /\ nextId' = IF ok THEN nextId + 1 ELSE nextId
  /\ pc' = [pc EXCEPT ![p] = "finally"]
  /\ UNCHANGED <<sheet, now, props, config, trigger, lockHolder, loc, runs, outcome,
                 preview, counted, refresh>>

-----------------------------------------------------------------------------
(* ThreadPublisher: postThreadGroup_.  loc.i is the 1-based position in     *)
(* threadRows of the row being handled.                                     *)

\* lines 1082: where the run goes when the loop over threadRows is over
AfterLoop(noteUrl, previousTweetId) ==
  IF noteUrl # <<>> /\ previousTweetId # 0 THEN "t_note" ELSE "finally"

\* a loop that never updates previousTweetId
previousTweetIdKept(previousTweetId, tweetId) == previousTweetId

\* a loop that goes on with the next row after a publish failure
AfterThreadFailureContinue(last) == IF last THEN "finally" ELSE "t_sleep"

\* line 1065: previousTweetId = result.tweetId
previousTweetIdAfter(previousTweetId, tweetId) == tweetId

\* line 1075: a publish failure is rethrown, which ends the loop
AfterThreadFailure(last) == "finally"

\* lines 986-999: resolve the rows of the group
ThreadFind(p) ==
  /\ pc[p] = "thread"
  /\ LET threadRows == findThreadGroupRows_(sheet, loc[p].target.threadGroupId)
     IN /\ Set(p, [loc[p] EXCEPT !.threadRows = threadRows, !.i = 1,
                                 !.previousTweetId = 0])
        /\ pc' = [pc EXCEPT ![p] = IF threadRows = <<>> THEN "finally" ELSE "t_row"]
  /\ UNCHANGED <<sheet, now, props, config, trigger, lockHolder, calls, nextId, runs,
                 outcome, preview, counted, refresh>>

\* lines 1002-1034: empty-content check, posting mark, character-limit policy
ThreadRowStart(p) ==
  /\ pc[p] = "t_row"
  /\ loc[p].writes = <<>>
  /\ LET row == loc[p].threadRows[loc[p].i]
         rowNumber == row.rowNumber
         verdict == LimitVerdict(row.content)
         message == "length exceeded"
         images == getImagesFromCell_(sheet, rowNumber)
         last == loc[p].i = Len(loc[p].threadRows)
         continuePc == IF last
                       THEN AfterLoop(loc[p].target.noteUrl, loc[p].previousTweetId)
                       ELSE "t_row"
         continueI == IF last THEN loc[p].i ELSE loc[p].i + 1
     IN IF row.content = <<>>
        THEN /\ Set(p, [loc[p] EXCEPT
                  !.writes = setRowStatus_(rowNumber, statusFailed, "content empty"),
                  !.i = continueI])
             /\ pc' = [pc EXCEPT ![p] = continuePc]
        ELSE IF verdict # "ok"
        THEN /\ Set(p, [loc[p] EXCEPT
                  !.writes = setRowStatus_(rowNumber, statusPosting, "")
                             \o setRowStatus_(rowNumber, statusFailed, message),
                  !.i = IF verdict = "skip" THEN continueI ELSE @,
                  !.error = (verdict = "fatal")])
             /\ pc' = [pc EXCEPT ![p] =
                         IF verdict = "skip" THEN continuePc ELSE "finally"]
        ELSE /\ Set(p, [loc[p] EXCEPT
                  !.writes = setRowStatus_(rowNumber, statusPosting, ""),
                  !.imageCount = images, !.j = 0, !.mediaIds = <<>>])
             /\ pc' = [pc EXCEPT ![p] = IF images > 0 THEN "t_media" ELSE "t_post"]
  /\ UNCHANGED <<sheet, now, props, config, trigger, lockHolder, calls, nextId, runs,
                 outcome, preview, counted, refresh>>

\* one uploadMediaToTwitter_ call of the upload loop; a failure is only logged
ThreadUpload(p) ==
  /\ pc[p] = "t_media"
  /\ loc[p].writes = <<>>
  /\ \E ok \in BOOLEAN :
       LET blob == loc[p].j + 1
           rowNumber == loc[p].threadRows[loc[p].i].rowNumber
       IN /\ calls' = Log(p, calls[p], UploadEvent(rowNumber, blob, ok))
          /\ Set(p, [loc[p] EXCEPT
               !.j = blob,
               !.mediaIds = IF ok THEN Append(@, blob) ELSE @])
          /\ pc' = [pc EXCEPT ![p] =
                      IF blob = loc[p].imageCount THEN "t_post" ELSE "t_media"]
  /\ UNCHANGED <<sheet, now, props, config, trigger, lockHolder, nextId, runs, outcome,
                 preview, counted, refresh>>

\* postSingleTweet_(content, previousTweetId, credentials, mediaIds) and what
\* follows it
ThreadPost(p) ==
  /\ pc[p] = "t_post"
  /\ loc[p].writes = <<>>
  /\ \E ok \in BOOLEAN :
       LET row == loc[p].threadRows[loc[p].i]
           rowNumber == row.rowNumber
           last == loc[p].i = Len(loc[p].threadRows)
       IN IF ok
          THEN /\ calls' = Log(p, calls[p],
                    PublishEvent(rowNumber, row.content, loc[p].previousTweetId,
                                 loc[p].mediaIds, TRUE, nextId))
               /\ nextId' = nextId + 1
               /\ Set(p, [loc[p] EXCEPT
                    !.previousTweetId = previousTweetIdAfter(@, nextId),
                    !.writes = SuccessWrites(rowNumber, nextId)])
               /\ pc' = [pc EXCEPT ![p] =
                           IF last
                           THEN AfterLoop(loc[p].target.noteUrl,
                                          previousTweetIdAfter(
                                            loc[p].previousTweetId, nextId))
                           ELSE "t_sleep"]
          ELSE /\ calls' = Log(p, calls[p],
                    PublishEvent(rowNumber, row.content, loc[p].previousTweetId,
                                 loc[p].mediaIds, FALSE, 0))
               /\ nextId' = nextId
               /\ Set(p, [loc[p] EXCEPT
                    !.writes = setRowStatus_(rowNumber, statusFailed, "api error"),
                    !.error = TRUE])
               /\ pc' = [pc EXCEPT ![p] = AfterThreadFailure(last)]
  /\ UNCHANGED <<sheet, now, props, config, trigger, lockHolder, runs, outcome, preview,
                 counted, refresh>>

\* Utilities.sleep(1000) between two rows of the group
ThreadSleep(p) ==
  /\ pc[p] = "t_sleep"
  /\ loc[p].writes = <<>>
  /\ calls' = Log(p, calls[p], SleepEvent)
  /\ Set(p, [loc[p] EXCEPT !.i = @ + 1])
  /\ pc' = [pc EXCEPT ![p] = "t_row"]
  /\ UNCHANGED <<sheet, now, props, config, trigger, lockHolder, nextId, runs, outcome,
                 preview, counted, refresh>>

\* lines 1082-1091: sleep, then the link reply; a failure is only logged
ThreadNote(p) ==
  /\ pc[p] = "t_note"
  /\ loc[p].writes = <<>>
  /\ \E ok \in BOOLEAN :
       /\ calls' = Log(p, Append(calls[p], SleepEvent),
                       PublishEvent(0, loc[p].target.noteUrl,
                                    loc[p].previousTweetId, <<>>, ok,
                                    IF ok THEN nextId ELSE 0))
       /\ nextId' = IF ok THEN nextId + 1 ELSE nextId
  /\ pc' = [pc EXCEPT ![p] = "finally"]
  /\ UNCHANGED <<sheet, now, props, config, trigger, lockHolder, loc, runs, outcome,
                 preview, counted, refresh>>

-----------------------------------------------------------------------------
(* The scheduled entry point under concurrent invocations *)

Next ==
  \E p \in Invocations :
    \/ Invoke(p)
    \/ TryLockAcquired(p)
    \/ TryLockTimedOut(p)
    \/ FindTarget(p)
    \/ SingleStart(p)
    \/ SingleUpload(p)
    \/ SinglePost(p)
    \/ SingleNote(p)
    \/ ThreadFind(p)
    \/ ThreadRowStart(p)
    \/ ThreadUpload(p)
    \/ ThreadPost(p)
    \/ ThreadSleep(p)
    \/ ThreadNote(p)
    \/ SetValue(p)
    \/ Finally(p)
    \/ Exit(p)

Spec == Init /\ [][Next]_vars

-----------------------------------------------------------------------------
(* The selector on its own: previewNextScheduledRow applies                 *)
(* findNextPublishableRow_ to stores whose cells cover the parsing cases.   *)

DayCells ==
  { DayBlank, DayNum(5), DayNum(20), DayNum(25), DayDate(2 * DayMs + HourMs),
    DayStr(-1), DayStr(2 * DayMs + 5 * MinuteMs) }

HourCells ==
  { <<>>, <<"1", "2">>, <<" ", "1", "2", " ">>, <<"2", "4">>, <<"-", "1">>,
    <<"x">>, <<"1", "2", "x">> }

MinuteCells == { <<>>, <<"5">>, <<"6", "0">>, <<"x">> }

StatusCells ==
  { <<>>, statusPending, statusFailed, statusPosted, statusPosting,
    <<" ", "P", "o", "s", "t", "e", "d", " ">>,
    <<"P", "O", "S", "T", "I", "N", "G">> }

ContentCells == { <<>>, <<" ">>, Hi }

Extras == { <<NoNote, <<>> >>, <<NoteValue, GroupG>>, <<NoteFormula, <<>> >> }

TimeProbes ==
  { Row(c, 0, NoNote, d, h, m, NoResult, <<>>, st) :
      c \in {<<>>, Hi}, d \in DayCells, h \in HourCells, m \in MinuteCells,
      st \in {<<>>, statusFailed} }

StatusProbes ==
  { Row(c, 0, x[1], d, <<"1", "2">>, <<>>, NoResult, x[2], st) :
      c \in ContentCells, x \in Extras, d \in {DayBlank, DayNum(20)},
      st \in StatusCells }

Probes == TimeProbes \cup StatusProbes

Companions ==
  { DueAtT0(Hi, 0, NoNote, NoResult, <<>>, <<>>),
    Unscheduled(Hi, 0, NoNote, NoResult, <<>>, <<>>),
    DueAtT0(Hi, 0, NoNote, UrlOf(1), GroupG, statusPosted) }

\* a probe row at position k among n - 1 companion rows
ProbeSheets(n) ==
  { [i \in 1..n |-> IF i = k THEN r ELSE IF i < k THEN sh[i] ELSE sh[i - 1]] :
      k \in 1..n, r \in Probes, sh \in SheetsOfLen(Companions, n - 1) }

SelSheets == UNION {ProbeSheets(n) : n \in 1..SelRows}

SelTimes ==
  { T0 - toleranceMs - 1, T0 - toleranceMs, T0, T0 + toleranceMs,
    T0 + toleranceMs + 1 }

SelInit ==
  /\ sheet \in SelSheets
  /\ config = ShippedConfig
  /\ props = [credentials |-> TRUE, xPlanType |-> ""]
  /\ trigger = "serial"
  /\ now = T0 - toleranceMs - 1
  /\ lockHolder = 0
  /\ pc = [p \in Invocations |-> "idle"]
  /\ loc = [p \in Invocations |-> InitLoc]
  /\ calls = [p \in Invocations |-> <<>>]
  /\ nextId = FirstId
  /\ runs = 0
  /\ outcome = [p \in Invocations |-> "none"]
  /\ preview = NoPreview
  /\ counted = NoCount
  /\ refresh = NoRefresh

\* a preview that marks the row it reports
PreviewMarking ==
  /\ \E t \in SelTimes :
       LET nextRow == previewNextScheduledRow(sheet, t)
       IN /\ t >= now
          /\ now' = t
          /\ preview' = [called |-> TRUE, at |-> t, row |-> nextRow,
                         before |-> [called |-> preview.called, at |-> preview.at,
                                     row |-> preview.row]]
          /\ sheet' = IF nextRow.rowNumber = 0 THEN sheet
                      ELSE setValue(sheet, StatusWrite(nextRow.rowNumber, statusPosting))
  /\ UNCHANGED <<props, config, trigger, lockHolder, pc, loc, calls, nextId, runs,
                 outcome, counted, refresh>>

\* previewNextScheduledRow: reads the clock and reports the next due row
Preview ==
  /\ \E t \in SelTimes :
       /\ t >= now
       /\ now' = t
       /\ preview' = [called |-> TRUE, at |-> t,
                      row |-> previewNextScheduledRow(sheet, t),
                      before |-> [called |-> preview.called, at |-> preview.at,
                                  row |-> preview.row]]
  /\ UNCHANGED <<sheet, props, config, trigger, lockHolder, pc, loc, calls,
                 nextId, runs, outcome, counted, refresh>>

SelNext == Preview

SelSpec == SelInit /\ [][SelNext]_vars

-----------------------------------------------------------------------------
(* The single-row publisher on its own: postSingleRow_ is handed a target   *)
(* built from any row of the store, due or not, with or without content.    *)

PubRows ==
  { Row(c, image, note, DayNum(20), <<"1", "2">>, <<>>, NoResult, <<>>, st) :
      c \in {<<>>, <<" ">>, Hi, LongText}, image \in {0, 2},
      note \in {NoNote, NoteLink}, st \in {<<>>, statusPending} }

PubSettings ==
  { <<c, q>> \in Configs \X Properties : q.credentials }

PubInit ==
  /\ \E r \in PubRows : sheet = <<r>>
  /\ \E st \in PubSettings : config = st[1] /\ props = st[2]
  /\ trigger = "serial"
  /\ now = T0
  /\ lockHolder = 1
  /\ pc = [p \in Invocations |-> IF p = 1 THEN "single" ELSE "idle"]
  /\ loc = [p \in Invocations |->
              IF p = 1
              THEN [InitLoc EXCEPT
                      !.hasLock = TRUE,
                      !.target = TargetOf(sheet, getValues(sheet, colStatus), 1)]
              ELSE InitLoc]
  /\ calls = [p \in Invocations |-> <<>>]
  /\ nextId = FirstId
  /\ runs = 1
  /\ outcome = [p \in Invocations |-> IF p = 1 THEN "running" ELSE "none"]
  /\ preview = NoPreview
  /\ counted = NoCount
  /\ refresh = NoRefresh

PubNext ==
  \E p \in Invocations :
    \/ SingleStart(p)
    \/ SingleUpload(p)
    \/ SinglePost(p)
    \/ SingleNote(p)
    \/ SetValue(p)
    \/ Finally(p)
    \/ Exit(p)

PubSpec == PubInit /\ [][PubNext]_vars

-----------------------------------------------------------------------------
(* Vocabulary of the properties *)

\* a status cell as the code reads it: trimmed, in lower case
Normal(cell) == ToLowerCase(Trim(cell))

StatusOf(rowNumber) == Normal(RowAt(sheet, rowNumber)[colStatus])

ResultOf(rowNumber) == RowAt(sheet, rowNumber)[colPostedUrl]

\* the PostingClient publish calls of invocation p's current run, in order
Publishes(p) == SelectSeq(calls[p], LAMBDA e : e.op = "publish")

\* the run of p goes through postThreadGroup_
ThreadRun(p) == loc[p].target.threadGroupId # <<>>

\* p is between a successful tryLock and its releaseLock
InRun(p) ==
  \/ pc[p] \in {"find", "single", "s_media", "s_post", "s_note", "thread",
                "t_row", "t_media", "t_post", "t_sleep", "t_note"}
  \/ pc[p] = "finally" /\ loc[p].hasLock

\* the current or last run of p is past tryLock and did not get the lock
NoLockRun(p) == outcome[p] # "none" /\ pc[p] # "tryLock" /\ ~loc[p].hasLock

\* the run of p has a failed publish call for a row of its group
RowFailure(p) ==
  /\ ThreadRun(p)
  /\ \E i \in 1..Len(calls[p]) :
       calls[p][i].op = "publish" /\ ~calls[p][i].ok /\ calls[p][i].row # 0

FailedRow(p) ==
  LET i == CHOOSE i \in 1..Len(calls[p]) :
             calls[p][i].op = "publish" /\ ~calls[p][i].ok /\ calls[p][i].row # 0
  IN calls[p][i].row

-----------------------------------------------------------------------------
(* C1: once a row is posted, no step changes its status or its result, and  *)
(* the rows postThreadGroup_ resolves for a group hold no row that is       *)
(* posted or posting at that moment.  The code breaks this: the range that  *)
(* findThreadGroupRows_ reads ends before the status column.                *)
C1_PostedRowNeverRevisited ==
  [][ /\ \A k \in 1..Len(sheet) :
           Normal(sheet[k][colStatus]) = statusPosted
             => /\ sheet'[k][colStatus] = sheet[k][colStatus]
                /\ sheet'[k][colPostedUrl] = sheet[k][colPostedUrl]
      /\ \A p \in Invocations :
           pc[p] = "thread" /\ pc'[p] # "thread"
             => \A i \in 1..Len(loc'[p].threadRows) :
                  ~IsProcessedStatus(StatusOf(loc'[p].threadRows[i].rowNumber))
    ]_vars

(* C2: in a group run the publish calls for rows come in increasing row     *)
(* order, the first publish call has no reply target, and every later       *)
(* publish call replies to the id of the latest successful publish call.    *)
C2_ThreadOrderAndReplyChain ==
  \A p \in Invocations :
    ThreadRun(p) =>
      LET pub == Publishes(p)
      IN /\ \A i, j \in 1..Len(pub) :
              i < j /\ pub[i].row # 0 /\ pub[j].row # 0 => pub[i].row < pub[j].row
         /\ Len(pub) >= 1 => pub[1].replyTo = 0
         /\ \A j \in 2..Len(pub) :
              \E i \in 1..(j - 1) :
                /\ pub[i].ok
                /\ pub[i].id # 0
                /\ pub[j].replyTo = pub[i].id
                /\ \A m \in (i + 1)..(j - 1) : ~pub[m].ok

\* the second row of a group was published as a reply to the first
C2_Witness ==
  \E p \in Invocations :
    /\ ThreadRun(p)
    /\ Len(Publishes(p)) >= 2
    /\ Publishes(p)[1].ok
    /\ Publishes(p)[2].row > Publishes(p)[1].row
    /\ Publishes(p)[2].replyTo = Publishes(p)[1].id

(* C3: after a failed publish call for a row of a group, the run makes no   *)
(* further call and changes no other row; the failed row ends failed with   *)
(* the error detail, and the invocation ends with the error.                *)
C3_ThreadFailFast ==
  /\ [][ \A p \in Invocations :
           RowFailure(p) /\ lockHolder = p
             => /\ calls'[p] = calls[p]
                /\ \A k \in 1..Len(sheet) :
                     dataStartRow + k - 1 # FailedRow(p) => sheet'[k] = sheet[k]
       ]_vars
  /\ [](\A p \in Invocations :
          RowFailure(p)
            => /\ loc[p].error
               /\ ~calls[p][Len(calls[p])].ok
               /\ lockHolder = p /\ loc[p].writes = <<>>
                    => /\ StatusOf(FailedRow(p)) = statusFailed
                       /\ ResultOf(FailedRow(p)) = MsgOf("api error")
               /\ pc[p] = "idle" => outcome[p] = "error")

\* the first row of a two-row group failed after the run started; the second
\* row was never attempted and is still blank
C3_Witness ==
  \E p \in Invocations :
    /\ RowFailure(p)
    /\ pc[p] = "idle"
    /\ outcome[p] = "error"
    /\ Len(loc[p].threadRows) >= 2
    /\ FailedRow(p) = loc[p].threadRows[1].rowNumber
    /\ StatusOf(FailedRow(p)) = statusFailed
    /\ StatusOf(loc[p].threadRows[2].rowNumber) = <<>>
    /\ Len(Publishes(p)) = 1

(* C4: at most one invocation at a time is between a successful lock        *)
(* acquisition and its release; that invocation is the lock holder, and     *)
(* only it has store writes under way.                                      *)
C4_MutualExclusion ==
  /\ \A p, q \in Invocations : InRun(p) /\ InRun(q) => p = q
  /\ \A p \in Invocations : InRun(p) => lockHolder = p
  /\ \A p \in Invocations : loc[p].writes # <<>> => lockHolder = p

\* one invocation is writing to the store while another has timed out
C4_Witness ==
  \E p, q \in Invocations :
    /\ p # q
    /\ InRun(p)
    /\ loc[p].writes # <<>>
    /\ pc[q] = "finally"
    /\ ~loc[q].hasLock

(* C5: an invocation that has ended, or whose error has reached the         *)
(* caller, does not hold the lock.                                          *)
C5_LockReleasedOnExit ==
  \A p \in Invocations :
    /\ pc[p] \in {"exit", "idle"} => lockHolder # p
    /\ outcome[p] = "error" => lockHolder # p

\* a run that got the lock is ending with an error, and the lock is free
C5_Witness ==
  \E p \in Invocations :
    /\ pc[p] = "exit"
    /\ loc[p].hasLock
    /\ loc[p].error
    /\ lockHolder = 0

(* C6: a run that did not get the lock goes straight to its exit: it has    *)
(* selected nothing, made no call and queued no write, its steps change     *)
(* neither the store nor the clock nor the id counter, and it ends without  *)
(* error.                                                                   *)
C6_NoLockNoOp ==
  /\ [](\A p \in Invocations :
          NoLockRun(p)
            => /\ pc[p] \in {"finally", "exit", "idle"}
               /\ loc[p] = InitLoc
               /\ calls[p] = <<>>
               /\ pc[p] = "idle" => outcome[p] = "ok")
  /\ [][ \A p \in Invocations :
           NoLockRun(p)' /\ pc'[p] # pc[p]
             => sheet' = sheet /\ now' = now /\ nextId' = nextId
       ]_vars

\* an invocation has returned without the lock while another one is running
C6_Witness ==
  \E p, q \in Invocations :
    /\ NoLockRun(p)
    /\ pc[p] = "idle"
    /\ outcome[p] = "ok"
    /\ InRun(q)

-----------------------------------------------------------------------------
(* Vocabulary of the selector properties *)

RowNumberOf(k) == dataStartRow + k - 1

ScheduledAtOfRow(row) == scheduledAtOf(row[colDay], row[colHour], row[colMinute])

\* content and status let the row through, and its scheduledAt is defined
OtherwiseEligible(row) ==
  /\ Trim(row[colContent]) # <<>>
  /\ Normal(row[colStatus]) \notin {statusPosted, statusPosting}
  /\ ScheduledAtOfRow(row).ok

InWindow(ms, t) == t - toleranceMs <= ms /\ ms <= t + toleranceMs

\* eligibility as the reference operator of C10 states it
RefEligible(row, t) == OtherwiseEligible(row) /\ InWindow(ScheduledAtOfRow(row).ms, t)

RefSelect(sh, t) ==
  LET eligible == {k \in 1..Len(sh) : RefEligible(sh[k], t)}
  IN IF eligible = {} THEN NoTarget
     ELSE LET k == CHOOSE k \in eligible : \A j \in eligible : k <= j
          IN [rowNumber |-> RowNumberOf(k),
              content |-> Trim(sh[k][colContent]),
              noteUrl |-> extractUrlFromCell_(sh[k][colNoteUrl]),
              scheduledAt |-> ScheduledAtOfRow(sh[k]),
              threadGroupId |-> Trim(sh[k][colThreadGroupId])]

\* the whole text is a decimal numeral
IsNumeral(s) == s # <<>> /\ \A i \in 1..Len(s) : s[i] \in Digits

\* an hour or minute cell that the specification calls undefined: not blank,
\* and either not a number or a number above max
TimeCellUndefined(cell, max) ==
  /\ cell # <<>>
  /\ \/ ~IsNumeral(Trim(cell))
     \/ ParseInt(Trim(cell)).n > max

\* scheduledAt is undefined as C8 lists the cases
ListedUndefined(row) ==
  \/ row[colDay].t = "blank"
  \/ row[colDay].t = "str" /\ row[colDay].v < 0
  \/ row[colDay].t = "num" /\ row[colDay].v < 10
  \/ TimeCellUndefined(row[colHour], 23)
  \/ TimeCellUndefined(row[colMinute], 59)

-----------------------------------------------------------------------------
(* C7: whatever the rows and the clock, the selector never returns a row    *)
(* whose status, trimmed and in lower case, is posted or posting.           *)
C7_ProcessedNeverSelected ==
  preview.called /\ preview.row.rowNumber # 0
    => StatusOf(preview.row.rowNumber) \notin {statusPosted, statusPosting}

\* the only row that content and schedule would let through has a status
\* cell that reads posted or posting only after trimming and lower-casing
C7_Witness ==
  /\ preview.called
  /\ preview.row.rowNumber = 0
  /\ \E k \in 1..Len(sheet) :
       /\ Trim(sheet[k][colContent]) # <<>>
       /\ ScheduledAtOfRow(sheet[k]).ok
       /\ InWindow(ScheduledAtOfRow(sheet[k]).ms, preview.at)
       /\ sheet[k][colStatus] \notin {statusPosted, statusPosting}
       /\ Normal(sheet[k][colStatus]) \in {statusPosted, statusPosting}

(* C8: a row whose scheduledAt is undefined (date blank or unparseable,     *)
(* date serial below 1, hour outside 0..23, minute outside 0..59, hour or   *)
(* minute not a number) is never returned by the selector.  The code        *)
(* breaks this for an hour or minute that starts with digits: parseInt      *)
(* reads the digits and drops the rest.                                     *)
C8_UndefinedNeverSelected ==
  \A k \in 1..Len(sheet) :
    preview.called /\ ListedUndefined(sheet[k])
      => preview.row.rowNumber # RowNumberOf(k)

(* C9: the tolerance window is closed at both ends: an otherwise eligible   *)
(* row scheduled exactly at now + tolerance or now - tolerance is eligible  *)
(* (it, or an earlier row, is returned), and a row scheduled one            *)
(* millisecond outside either end is never returned.                        *)
C9_WindowClosed ==
  preview.called =>
    \A k \in 1..Len(sheet) :
      LET at == ScheduledAtOfRow(sheet[k]).ms
          atBound == at \in {preview.at + toleranceMs, preview.at - toleranceMs}
          pastBound == at \in {preview.at + toleranceMs + 1,
                               preview.at - toleranceMs - 1}
      IN /\ (OtherwiseEligible(sheet[k]) /\ atBound)
              => (preview.row.rowNumber # 0 /\ preview.row.rowNumber <= RowNumberOf(k))
         /\ (OtherwiseEligible(sheet[k]) /\ pastBound)
              => preview.row.rowNumber # RowNumberOf(k)

\* a row scheduled exactly at now + tolerance was returned
C9_Witness ==
  /\ preview.called
  /\ preview.row.rowNumber # 0
  /\ OtherwiseEligible(RowAt(sheet, preview.row.rowNumber))
  /\ ScheduledAtOfRow(RowAt(sheet, preview.row.rowNumber)).ms = preview.at + toleranceMs

(* C10: the selector returns the eligible row with the smallest row         *)
(* position, with that row's scheduledAt, threadGroupId and reply link, or  *)
(* nothing when no row is eligible; eligible means content that is not      *)
(* empty once trimmed, a status other than posted and posting, and a        *)
(* defined scheduledAt within [now - tolerance, now + tolerance].           *)
C10_SelectorEqualsReference ==
  preview.called => preview.row = RefSelect(sheet, preview.at)

\* two rows are eligible and the first of them, a failed one, is returned
C10_Witness ==
  /\ preview.called
  /\ \E k, j \in 1..Len(sheet) :
       /\ k < j
       /\ RefEligible(sheet[k], preview.at)
       /\ RefEligible(sheet[j], preview.at)
       /\ Normal(sheet[k][colStatus]) = statusFailed
       /\ preview.row.rowNumber = RowNumberOf(k)

-----------------------------------------------------------------------------
C12_PreviewReadOnly ==
  [][ preview' # preview
        => /\ sheet' = sheet
           /\ calls' = calls
           /\ nextId' = nextId
           /\ preview'.row = findNextPublishableRow_(sheet, preview'.at)
    ]_vars

\* a preview reported a row whose status cell is still blank, after a preview
\* that reported none
C12_Witness ==
  /\ preview.called
  /\ preview.before.called
  /\ preview.before.row.rowNumber = 0
  /\ preview.row.rowNumber # 0
  /\ RowAt(sheet, preview.row.rowNumber)[colStatus] = <<>>
  /\ calls = [p \in Invocations |-> <<>>]

-----------------------------------------------------------------------------
(* Vocabulary of the publisher properties *)

\* the status writes of p's run that have reached the row, in order
StatusWritesTo(p, rowNumber) ==
  SelectSeq(loc[p].applied, LAMBDA w : w.col = colStatus /\ w.row = rowNumber)

\* this step applies a status write of p's run to the sheet
AppliesStatus(p) ==
  /\ loc[p].writes # <<>>
  /\ Head(loc[p].writes).col = colStatus
  /\ loc'[p].applied = Append(loc[p].applied, Head(loc[p].writes))

\* posted or failed is written over a posting mark of this run, and nothing
\* is written to a row after its posted or failed
StatusWriteInOrder(p) ==
  LET w == Head(loc[p].writes)
      earlier == StatusWritesTo(p, w.row)
  IN /\ w.status = statusPosting => earlier = <<>>
     /\ w.status \in {statusPosted, statusFailed}
          => /\ earlier # <<>>
             /\ earlier[Len(earlier)].status = statusPosting
             /\ RowAt(sheet, w.row)[colStatus] = statusPosting
     /\ w.status \in {statusPosting, statusPosted, statusFailed}

C14_MissingCredentialsFatal ==
  \A p \in Invocations :
    loc[p].hasLock /\ ~props.credentials
      => /\ calls[p] = <<>>
         /\ loc[p].writes = <<>>
         /\ loc[p].applied = <<>>
         /\ pc[p] = "idle" => outcome[p] = "error"

\* the rows a run may touch: the selected row, or the rows of its group
InUnit(p, rowNumber) ==
  IF ThreadRun(p)
  THEN Trim(RowAt(sheet, rowNumber)[colThreadGroupId]) = loc[p].target.threadGroupId
  ELSE rowNumber = loc[p].target.rowNumber

SinglePcs == {"single", "s_media", "s_post", "s_note"}

ThreadPcs == {"thread", "t_row", "t_media", "t_post", "t_sleep", "t_note"}

(* C15: a run calls the selector once and handles one unit: it goes to the  *)
(* thread publisher iff the selected row has a threadGroupId, else to the   *)
(* single-row publisher; a row changes only by a write of the lock holder   *)
(* to the selected row (single path) or to a row of the selected row's      *)
(* group (thread path); a run with no due row writes and calls nothing.     *)
C15_OneUnitPerRun ==
  /\ [](\A p \in Invocations :
          /\ pc[p] \in SinglePcs
               => loc[p].target.rowNumber # 0 /\ loc[p].target.threadGroupId = <<>>
          /\ pc[p] \in ThreadPcs
               => loc[p].target.rowNumber # 0 /\ loc[p].target.threadGroupId # <<>>
          /\ \A i \in 1..Len(loc[p].applied) : InUnit(p, loc[p].applied[i].row)
          /\ \A i \in 1..Len(loc[p].writes) : InUnit(p, loc[p].writes[i].row)
          /\ \A i \in 1..Len(calls[p]) :
               calls[p][i].row # 0 => InUnit(p, calls[p][i].row)
          /\ loc[p].target.rowNumber = 0
               => loc[p].applied = <<>> /\ loc[p].writes = <<>> /\ calls[p] = <<>>)
  /\ [][ /\ \A p \in Invocations :
              /\ pc'[p] = "find" /\ pc[p] # "find" => pc[p] = "tryLock"
              /\ loc'[p].target # loc[p].target
                   => \/ pc[p] = "find" /\ loc[p].target = NoTarget
                      \/ pc[p] = "idle" /\ loc'[p].target = NoTarget
         /\ \A k \in 1..Len(sheet) :
              sheet'[k] # sheet[k]
                => \E p \in Invocations :
                     /\ lockHolder = p
                     /\ loc[p].writes # <<>>
                     /\ Head(loc[p].writes).row = RowNumberOf(k)
                     /\ InUnit(p, RowNumberOf(k))
     ]_vars

\* a thread run has ended after writing to two rows of its group
C15_Witness ==
  \E p \in Invocations :
    /\ ThreadRun(p)
    /\ \E i, j \in 1..Len(loc[p].applied) :
         loc[p].applied[i].row # loc[p].applied[j].row
    /\ pc[p] = "idle"

\* the run of p has ended, or is about to, after it got the lock
RunOver(p) == loc[p].hasLock /\ loc[p].writes = <<>> /\ pc[p] \in {"finally", "exit", "idle"}

\* p's target is a plain row: no group, no image, no reply link, and content
\* that passes the character-limit policy
PlainTarget(p) ==
  /\ loc[p].target.rowNumber # 0
  /\ loc[p].target.threadGroupId = <<>>
  /\ loc[p].target.noteUrl = <<>>
  /\ getImagesFromCell_(sheet, loc[p].target.rowNumber) = 0
  /\ LimitVerdict(loc[p].target.content) = "ok"

(* C16: a due, pending, non-grouped row with content within the limit, no   *)
(* media and no reply link is returned by the selector when no earlier row  *)
(* is due, and when its publish call succeeds the single-row publisher has  *)
(* made exactly one PostingClient call, a publish of that content with no   *)
(* reply target and no media, and has written posting, then the returned    *)
(* URL to the result field, then posted.                                    *)
C16_PlainRowPublished ==
  /\ [](\A p \in Invocations :
          PlainTarget(p) /\ RunOver(p) /\ ~loc[p].error
            => LET r == loc[p].target.rowNumber
               IN /\ Len(calls[p]) = 1
                  /\ calls[p][1].id >= FirstId
                  /\ calls[p][1] = PublishEvent(r, Trim(RowAt(sheet, r)[colContent]),
                                                0, <<>>, TRUE, calls[p][1].id)
                  /\ loc[p].applied =
                       <<StatusWrite(r, statusPosting),
                         ResultWrite(r, UrlOf(calls[p][1].id)),
                         StatusWrite(r, statusPosted)>>
                  /\ RowAt(sheet, r)[colStatus] = statusPosted
                  /\ ResultOf(r) = UrlOf(calls[p][1].id))
  /\ [][ \A p \in Invocations :
           ( /\ pc[p] = "find"
             /\ pc'[p] # "find"
             /\ props.credentials
             /\ RefEligible(sheet[1], now')
             /\ Normal(sheet[1][colStatus]) \in {<<>>, statusPending} )
             => loc'[p].target.rowNumber = RowNumberOf(1)
       ]_vars

\* the run published the plain row "hi" and left it posted with its URL
C16_Witness ==
  \E p \in Invocations :
    /\ PlainTarget(p)
    /\ RunOver(p)
    /\ pc[p] = "idle"
    /\ outcome[p] = "ok"
    /\ loc[p].target.content = Hi
    /\ Len(calls[p]) = 1
    /\ ResultOf(loc[p].target.rowNumber) = UrlOf(calls[p][1].id)
    /\ StatusOf(loc[p].target.rowNumber) = statusPosted

(* C17: handed a row with empty content, the single-row publisher marks it  *)
(* failed with a content-empty detail in the result field, calls neither    *)
(* publish nor upload, never writes posting, and returns without an error.  *)
C17_EmptyContentFailed ==
  \A p \in Invocations :
    loc[p].target.rowNumber # 0 /\ loc[p].target.content = <<>>
      => LET r == loc[p].target.rowNumber
             failure == <<StatusWrite(r, statusFailed),
                          ResultWrite(r, MsgOf("content empty"))>>
         IN /\ calls[p] = <<>>
            /\ ~loc[p].error
            /\ pc[p] \in {"single", "finally", "exit", "idle"}
            /\ pc[p] = "single" => loc[p].applied = <<>> /\ loc[p].writes = <<>>
            /\ pc[p] # "single" => loc[p].applied \o loc[p].writes = failure
            /\ pc[p] \in {"exit", "idle"}
                 => /\ RowAt(sheet, r)[colStatus] = statusFailed
                    /\ ResultOf(r) = MsgOf("content empty")
            /\ pc[p] = "idle" => outcome[p] = "ok"

\* the publisher has returned from a row whose content cell holds one space
C17_Witness ==
  \E p \in Invocations :
    /\ loc[p].target.rowNumber # 0
    /\ loc[p].target.content = <<>>
    /\ RowAt(sheet, loc[p].target.rowNumber)[colContent] = <<" ">>
    /\ pc[p] = "idle"
    /\ outcome[p] = "ok"
    /\ StatusOf(loc[p].target.rowNumber) = statusFailed

\* the single-row publisher of p's run has a row whose count is over the
\* plan maximum while the policy is enabled
OverLimit(p) ==
  /\ ~ThreadRun(p)
  /\ loc[p].target.rowNumber # 0
  /\ props.credentials
  /\ config.enabled
  /\ countTwitterCharacters_(loc[p].target.content)
       > (IF props.xPlanType \in {"basic", "premium"}
          THEN paidCharacterLimit ELSE freeCharacterLimit)

(* C18: with the character-limit policy enabled, a row of the single-row    *)
(* publisher whose count exceeds the plan maximum is marked failed with a   *)
(* length-exceeded detail and no PostingClient call is made for it; the     *)
(* publisher returns normally under skip-on-exceed and otherwise raises an  *)
(* error that ends the run.                                                 *)
C18_OverLimitFailed ==
  \A p \in Invocations :
    OverLimit(p)
      => LET r == loc[p].target.rowNumber
         IN /\ calls[p] = <<>>
            /\ pc[p] \in {"single", "finally", "exit", "idle"}
            /\ pc[p] = "single" => loc[p].applied = <<>> /\ loc[p].writes = <<>>
            /\ pc[p] # "single"
                 => /\ loc[p].applied \o loc[p].writes =
                         <<StatusWrite(r, statusPosting),
                           StatusWrite(r, statusFailed),
                           ResultWrite(r, MsgOf("length exceeded"))>>
                    /\ loc[p].error = ~config.skipOnExceed
            /\ pc[p] = "finally" /\ loc[p].writes = <<>>
                 => /\ RowAt(sheet, r)[colStatus] = statusFailed
                    /\ ResultOf(r) = MsgOf("length exceeded")
            /\ pc[p] = "idle"
                 => outcome[p] = IF config.skipOnExceed THEN "ok" ELSE "error"

\* without skip-on-exceed, a run ended in error on a row of 141 characters
C18_Witness ==
  \E p \in Invocations :
    /\ OverLimit(p)
    /\ ~config.skipOnExceed
    /\ pc[p] = "idle"
    /\ outcome[p] = "error"
    /\ StatusOf(loc[p].target.rowNumber) = statusFailed

\* the single-row publisher of p's run has a failed publish call for its row
MainFailure(p) ==
  /\ ~ThreadRun(p)
  /\ \E i \in 1..Len(calls[p]) :
       /\ calls[p][i].op = "publish"
       /\ calls[p][i].row = loc[p].target.rowNumber
       /\ ~calls[p][i].ok

(* C19: when the main publish call of the single-row publisher fails, the   *)
(* row ends failed with the error detail in the result field, no link reply *)
(* is attempted, the publish call is not repeated in the run, and the       *)
(* failure reaches the caller.                                              *)
C19_SingleFailurePropagates ==
  \A p \in Invocations :
    MainFailure(p)
      => LET r == loc[p].target.rowNumber
         IN /\ Len(Publishes(p)) = 1
            /\ calls[p][Len(calls[p])] = Publishes(p)[1]
            /\ loc[p].error
            /\ pc[p] \in {"finally", "exit", "idle"}
            /\ loc[p].applied \o loc[p].writes =
                 <<StatusWrite(r, statusPosting),
                   StatusWrite(r, statusFailed),
                   ResultWrite(r, MsgOf("api error"))>>
            /\ pc[p] = "finally" /\ loc[p].writes = <<>>
                 => /\ RowAt(sheet, r)[colStatus] = statusFailed
                    /\ ResultOf(r) = MsgOf("api error")
            /\ pc[p] = "idle" => outcome[p] = "error"

\* the publish of a row with a reply link failed after its uploads, and the
\* run ended in error without a link reply
C19_Witness ==
  \E p \in Invocations :
    /\ MainFailure(p)
    /\ loc[p].target.noteUrl # <<>>
    /\ Len(calls[p]) > 1
    /\ pc[p] = "idle"
    /\ outcome[p] = "error"
    /\ StatusOf(loc[p].target.rowNumber) = statusFailed

\* the link replies of p's run: publish calls that belong to no row
NoteCalls(p) == SelectSeq(calls[p], LAMBDA e : e.op = "publish" /\ e.row = 0)

(* C20: the single-row publisher attempts the link reply at most once, only *)
(* for a row with a reply link and only after the main publish succeeded,   *)
(* as a reply to the id that publish returned; exactly once when the run    *)
(* is over after such a publish.  Whether or not the link reply succeeds,   *)
(* the row is posted with its URL in the result field and no error reaches  *)
(* the caller.                                                              *)
C20_LinkReplyBestEffort ==
  \A p \in Invocations :
    ~ThreadRun(p) /\ loc[p].target.rowNumber # 0
      => LET r == loc[p].target.rowNumber
             pub == Publishes(p)
             mainOk == pub # <<>> /\ pub[1].row = r /\ pub[1].ok
         IN /\ Len(NoteCalls(p)) <= 1
            /\ NoteCalls(p) # <<>>
                 => /\ loc[p].target.noteUrl # <<>>
                    /\ mainOk
                    /\ Len(pub) = 2
                    /\ calls[p][Len(calls[p])] = pub[2]
                    /\ pub[2].text = loc[p].target.noteUrl
                    /\ pub[2].replyTo = pub[1].id
                    /\ pub[2].media = <<>>
                    /\ loc[p].applied \o loc[p].writes =
                         <<StatusWrite(r, statusPosting),
                           ResultWrite(r, UrlOf(pub[1].id)),
                           StatusWrite(r, statusPosted)>>
                    /\ ~loc[p].error
                    /\ pc[p] \in {"finally", "exit", "idle"}
                    /\ pc[p] = "finally" /\ loc[p].writes = <<>>
                         => /\ RowAt(sheet, r)[colStatus] = statusPosted
                            /\ ResultOf(r) = UrlOf(pub[1].id)
                    /\ pc[p] = "idle" => outcome[p] = "ok"
            /\ mainOk /\ loc[p].target.noteUrl # <<>> /\ pc[p] \in {"finally", "exit", "idle"}
                 => Len(NoteCalls(p)) = 1

\* the link reply failed after a successful publish; the run ended without
\* error and the row is posted with its URL
C20_Witness ==
  \E p \in Invocations :
    /\ ~ThreadRun(p)
    /\ Len(NoteCalls(p)) = 1
    /\ ~NoteCalls(p)[1].ok
    /\ NoteCalls(p)[1].replyTo >= FirstId
    /\ pc[p] = "idle"
    /\ outcome[p] = "ok"
    /\ StatusOf(loc[p].target.rowNumber) = statusPosted
    /\ ResultOf(loc[p].target.rowNumber) = UrlOf(NoteCalls(p)[1].replyTo)

-----------------------------------------------------------------------------
\* the run of p found a due row while a credential was missing
ConfigurationError(p) == loc[p].target.rowNumber # 0 /\ ~props.credentials

\* the run of p failed a row for its length while skip-on-exceed is off
FatalLength(p) ==
  /\ ~config.skipOnExceed
  /\ \E i \in 1..Len(loc[p].applied) :
       loc[p].applied[i].result = MsgOf("length exceeded")

\* a publish call for a row failed in the run of p
MainPublishFailure(p) ==
  \E i \in 1..Len(calls[p]) :
    calls[p][i].op = "publish" /\ calls[p][i].row # 0 /\ ~calls[p][i].ok

(* C21: an invocation ends with an error exactly when its run met a         *)
(* configuration error, a length-exceeded row without skip-on-exceed, or a  *)
(* failed publish call for a row; a run that did not get the lock, found no *)
(* due row, skipped an over-limit row, or had an upload or a link reply     *)
(* fail ends normally.                                                      *)
C21_ErrorOutcome ==
  \A p \in Invocations :
    pc[p] = "idle" /\ outcome[p] # "none"
      => /\ outcome[p] \in {"ok", "error"}
         /\ outcome[p] = "error"
              <=> (ConfigurationError(p) \/ FatalLength(p) \/ MainPublishFailure(p))

\* a run ended normally although an upload and the link reply had failed
C21_Witness ==
  \E p \in Invocations :
    /\ pc[p] = "idle"
    /\ outcome[p] = "ok"
    /\ \E i \in 1..Len(calls[p]) : calls[p][i].op = "upload" /\ ~calls[p][i].ok
    /\ \E i \in 1..Len(calls[p]) :
         calls[p][i].op = "publish" /\ calls[p][i].row = 0 /\ ~calls[p][i].ok

\* this step logs a publish call of the single-row publisher for its row
PublishesRow(p) ==
  /\ ~ThreadRun(p)
  /\ Len(calls'[p]) = Len(calls[p]) + 1
  /\ calls'[p][Len(calls'[p])].op = "publish"
  /\ calls'[p][Len(calls'[p])].row # 0

(* C22: no catch-up.  The clock readings of successive runs never decrease, *)
(* and the selector never returns a row whose scheduledAt is earlier than   *)
(* the reading minus the tolerance, at this run or at an earlier one; the   *)
(* single-row publisher therefore never publishes a row that is past its    *)
(* window.                                                                  *)
C22_NoCatchUp ==
  [][ /\ now' >= now
      /\ \A p \in Invocations :
           /\ (pc[p] = "find" /\ loc'[p].target.rowNumber # 0)
                => LET at == ScheduledAtOfRow(RowAt(sheet, loc'[p].target.rowNumber))
                   IN /\ at.ok
                      /\ at.ms >= now' - toleranceMs
                      /\ at.ms >= now - toleranceMs
           /\ PublishesRow(p)
                => ScheduledAtOfRow(RowAt(sheet, calls'[p][Len(calls'[p])].row)).ms
                     >= now - toleranceMs
    ]_vars

\* a run at a later clock reading has ended without touching a blank row with
\* content whose window is over
C22_Witness ==
  \E p \in Invocations :
    /\ pc[p] = "idle"
    /\ outcome[p] = "ok"
    /\ loc[p].hasLock
    /\ \E k \in 1..Len(sheet) :
         /\ OtherwiseEligible(sheet[k])
         /\ sheet[k][colThreadGroupId] = <<>>
         /\ sheet[k][colStatus] = <<>>
         /\ ScheduledAtOfRow(sheet[k]).ms < now - toleranceMs
         /\ loc[p].target.rowNumber # RowNumberOf(k)

-----------------------------------------------------------------------------
\* The character counter, applied to a set of texts

Address == <<"h", "t", "t", "p", "s", ":", "/", "/", "x", ".", "c", "o", "/", "a", "b", "c">>

PlainAddress == <<"h", "t", "t", "p", ":", "/", "/", "a">>

Emoji == <<"HS", "LS">>

CountTexts ==
  { <<>>,
    <<"a">>,
    Address,
    <<"a", " ">> \o Address \o <<" ", "b">>,
    <<"H", "T", "T", "P", ":", "/", "/", "x">>,
    <<"h", "t", "t", "p", ":", "/", "/">>,
    <<"h", "t", "t", "p", "s", ":", "/", "/", " ", "a">>,
    PlainAddress \o <<" ">> \o Address,
    PlainAddress \o PlainAddress,
    PlainAddress \o <<"\n">> \o PlainAddress \o <<"\t", "b">>,
    <<"h">> \o PlainAddress,
    Emoji,
    <<"LS", "HS">>,
    <<"HS", "a", "LS">>,
    Emoji \o <<" ">> \o Address,
    <<"HS">> \o PlainAddress \o <<"LS">>,
    <<" ", "a", " ">>,
    <<" ">> }

\* an argument of countTwitterCharacters_: a string, or undefined
CountInputs ==
  {[defined |-> FALSE, text |-> <<>>]} \cup {[defined |-> TRUE, text |-> t] : t \in CountTexts}

\* countTwitterCharacters_(text) for an argument that may be undefined:
\* !text holds for undefined as it does for the empty string
countOf(input) ==
  IF ~input.defined THEN 0 ELSE countTwitterCharacters_(input.text)

CountInit ==
  /\ \E c \in CountTexts :
       sheet = << Row(c, 0, NoNote, DayBlank, <<>>, <<>>, NoResult, <<>>, <<>>) >>
  /\ config = ShippedConfig
  /\ props = [credentials |-> TRUE, xPlanType |-> "free"]
  /\ trigger = "serial"
  /\ now = T0
  /\ lockHolder = 0
  /\ pc = [p \in Invocations |-> "idle"]
  /\ loc = [p \in Invocations |-> InitLoc]
  /\ calls = [p \in Invocations |-> <<>>]
  /\ nextId = FirstId
  /\ runs = 0
  /\ outcome = [p \in Invocations |-> "none"]
  /\ preview = NoPreview
  /\ counted = NoCount
  /\ refresh = NoRefresh

\* one call of countTwitterCharacters_
Count ==
  \E input \in CountInputs :
    /\ counted' = [called |-> TRUE, input |-> input, result |-> countOf(input)]
    /\ UNCHANGED <<sheet, now, props, config, trigger, lockHolder, pc, loc, calls,
                   nextId, runs, outcome, preview, refresh>>

\* the value updateCharacterCounts puts in the count cell of a row; 0 stands
\* for the empty cell, the count of a content that is not empty being at least 1
charCountValue(row) ==
  LET content == Trim(CellText(row, colContent))
  IN IF content # <<>> THEN countTwitterCharacters_(content) ELSE 0

\* the menu command that fills the count column from the content column
updateCharacterCounts ==
  /\ Len(sheet) >= 1
  /\ sheet' = [k \in 1..Len(sheet) |->
                 [sheet[k] EXCEPT ![colCharCount] = charCountValue(sheet[k])]]
  /\ UNCHANGED <<now, props, config, trigger, lockHolder, pc, loc, calls, nextId, runs,
                 outcome, preview, counted, refresh>>

CountNext == Count \/ updateCharacterCounts

CountSpec == CountInit /\ [][CountNext]_vars

-----------------------------------------------------------------------------
\* The count the rule gives, worked out from left to right

\* an address starts at position k: the scheme in either case, then a character
\* that is not white space
RefUrlAt(s, k) ==
  \E n \in {7, 8} :
    /\ k + n <= Len(s)
    /\ ToLowerCase(SubSeq(s, k, k + n - 1)) \in
         { <<"h", "t", "t", "p", ":", "/", "/">>,
           <<"h", "t", "t", "p", "s", ":", "/", "/">> }
    /\ ~IsSpace(s[k + n])

\* the last position of the run without white space that holds position k
RECURSIVE RefRunEnd(_, _)
RefRunEnd(s, k) ==
  IF k < Len(s) /\ ~IsSpace(s[k + 1]) THEN RefRunEnd(s, k + 1) ELSE k

\* the addresses found from position k on and the text left once they are removed
RECURSIVE RefStrip(_, _)
RefStrip(s, k) ==
  IF k > Len(s) THEN [urls |-> 0, rest |-> <<>>]
  ELSE IF RefUrlAt(s, k)
       THEN LET r == RefStrip(s, RefRunEnd(s, k) + 1)
            IN [urls |-> r.urls + 1, rest |-> r.rest]
       ELSE LET r == RefStrip(s, k + 1)
            IN [urls |-> r.urls, rest |-> <<s[k]>> \o r.rest]

\* the number of code points of t: a surrogate pair is one
RECURSIVE RefCodePoints(_)
RefCodePoints(t) ==
  IF t = <<>> THEN 0
  ELSE IF Len(t) >= 2 /\ t[1] = "HS" /\ t[2] = "LS"
       THEN 1 + RefCodePoints(SubSeq(t, 3, Len(t)))
       ELSE 1 + RefCodePoints(Tail(t))

RefCount(input) ==
  IF ~input.defined \/ input.text = <<>> THEN 0
  ELSE LET r == RefStrip(input.text, 1)
       IN 23 * r.urls + RefCodePoints(r.rest)

\* C23: every call of the character counter returns 23 for each address (http://
\* or https://, in either case, with the run of characters without white space
\* that follows it) plus the number of code points of the text left once the
\* addresses are removed; an empty or undefined argument gives 0; the call
\* changes nothing but the value returned; and the count that
\* updateCharacterCounts writes for a row with content is that same value
C23_CountRule ==
  [][ /\ (counted' # counted) =>
           /\ counted'.called
           /\ counted'.result = RefCount(counted'.input)
           /\ UNCHANGED <<sheet, now, props, config, trigger, lockHolder, pc, loc,
                          calls, nextId, runs, outcome, preview, refresh>>
      /\ (sheet' # sheet) =>
           \A k \in 1..Len(sheet) :
             LET content == Trim(sheet[k][colContent])
             IN /\ sheet'[k][colContent] = sheet[k][colContent]
                /\ content # <<>> =>
                     sheet'[k][colCharCount] =
                       RefCount([defined |-> TRUE, text |-> content])
    ]_vars

\* a text with a surrogate pair and an address has been counted: 2 for the pair
\* and the space, 23 for the address
C23_Witness ==
  /\ counted.called
  /\ counted.input = [defined |-> TRUE, text |-> Emoji \o <<" ">> \o Address]
  /\ counted.result = 2 + 23

CountedText(t) == counted.called /\ counted.input = [defined |-> TRUE, text |-> t]

\* C24: the counts of four texts: "" gives 0, "a" gives 1, "https://x.co/abc"
\* gives 23, and "a https://x.co/abc b" gives 4 + 23, the four characters left
\* being "a", two spaces and "b"
C24_Examples ==
  /\ CountedText(<<>>) => counted.result = 0
  /\ CountedText(<<"a">>) => counted.result = 1
  /\ CountedText(Address) => counted.result = 23
  /\ CountedText(<<"a", " ">> \o Address \o <<" ", "b">>) => counted.result = 4 + 23

\* C24 as stated: "a https://x.co/abc b" gives 3 + 23
C24_ExamplesAsStated ==
  /\ CountedText(<<>>) => counted.result = 0
  /\ CountedText(<<"a">>) => counted.result = 1
  /\ CountedText(Address) => counted.result = 23
  /\ CountedText(<<"a", " ">> \o Address \o <<" ", "b">>) => counted.result = 3 + 23

\* "a https://x.co/abc b" has been counted, and the count is 27
C24_Witness ==
  /\ CountedText(<<"a", " ">> \o Address \o <<" ", "b">>)
  /\ counted.result = 27

-----------------------------------------------------------------------------
\* the loop of postThreadGroup_ has run to its end in p's run: no row failed
\* and no length error was raised
GroupDone(p) ==
  /\ ThreadRun(p)
  /\ loc[p].hasLock
  /\ props.credentials
  /\ ~loc[p].error
  /\ loc[p].writes = <<>>
  /\ pc[p] \in {"finally", "exit", "idle"}

\* the publish calls of p's run that created a post of a row
RowPosts(p) == SelectSeq(calls[p], LAMBDA e : e.op = "publish" /\ e.row # 0 /\ e.ok)

\* the reply link of the first row of the sheet that carries p's group id
FirstGroupRowNote(p) ==
  LET ks == {k \in 1..Len(sheet) :
               Trim(sheet[k][colThreadGroupId]) = loc[p].target.threadGroupId}
      first == CHOOSE k \in ks : \A x \in ks : k <= x
  IN extractUrlFromCell_(sheet[first][colNoteUrl])

\* the link reply is sent, once and as the last call, exactly when noteUrl is
\* there and a post of the group succeeded; it answers the last post created
LinkReplyRule(p, noteUrl) ==
  /\ (NoteCalls(p) # <<>>) <=> (noteUrl # <<>> /\ RowPosts(p) # <<>>)
  /\ Len(NoteCalls(p)) <= 1
  /\ NoteCalls(p) # <<>> =>
       /\ calls[p][Len(calls[p])] = NoteCalls(p)[1]
       /\ NoteCalls(p)[1].text = noteUrl
       /\ NoteCalls(p)[1].replyTo = RowPosts(p)[Len(RowPosts(p))].id
       /\ pc[p] = "idle" => outcome[p] = "ok"
       /\ pc[p] = "finally" =>
            \A i \in 1..Len(RowPosts(p)) :
              /\ StatusOf(RowPosts(p)[i].row) = statusPosted
              /\ ResultOf(RowPosts(p)[i].row) = UrlOf(RowPosts(p)[i].id)

\* C25: once the loop over the rows of a group has ended, the link reply has
\* been published if and only if the first row of the group carries a reply
\* link and a post of the group succeeded in this run; it is sent once, as a
\* reply to the last post created, and whether it succeeds or not no error is
\* raised and the rows posted stay posted with their URL
C25_LinkReplyOfFirstRow ==
  \A p \in Invocations : GroupDone(p) => LinkReplyRule(p, FirstGroupRowNote(p))

-----------------------------------------------------------------------------
\* the rows of p's group that have content and are neither posted nor posting
OpenGroupRows(p) ==
  {RowNumberOf(k) : k \in {x \in 1..Len(sheet) :
     /\ Trim(sheet[x][colThreadGroupId]) = loc[p].target.threadGroupId
     /\ Trim(sheet[x][colContent]) # <<>>
     /\ ~IsProcessedStatus(Normal(sheet[x][colStatus]))}}

\* the row numbers of a list of resolved rows, in the order of the list
RowNumbers(threadRows) == [i \in 1..Len(threadRows) |-> threadRows[i].rowNumber]

\* the rows p's run has marked posting, in the order of the marks
PostingMarks(p) ==
  LET marks == SelectSeq(loc[p].applied \o loc[p].writes,
                         LAMBDA w : w.col = colStatus /\ w.status = statusPosting)
  IN [i \in 1..Len(marks) |-> marks[i].row]

\* the run has dealt with the row: a publish call, or a length failure
Attempted(p, rowNumber) ==
  \/ \E i \in 1..Len(calls[p]) :
       calls[p][i].op = "publish" /\ calls[p][i].row = rowNumber
  \/ \E i \in 1..Len(loc[p].applied) :
       /\ loc[p].applied[i].row = rowNumber
       /\ loc[p].applied[i].result = MsgOf("length exceeded")

(* C26: the rows resolved for a group include every row with the group id   *)
(* that has content and is neither posted nor posting, whatever its own     *)
(* scheduledAt and wherever it stands relative to the triggering row, in    *)
(* row order; the publisher takes the resolved rows one by one in that      *)
(* order, and when the run ends without a publish failure or a fatal error  *)
(* every one of them has been attempted.                                    *)
C26_GroupRowsInOrder ==
  /\ [](\A p \in Invocations :
          ThreadRun(p) /\ loc[p].hasLock /\ props.credentials /\ pc[p] # "thread"
            => LET rows == RowNumbers(loc[p].threadRows)
                   marks == PostingMarks(p)
               IN /\ Len(marks) <= Len(rows)
                  /\ marks = SubSeq(rows, 1, Len(marks))
                  /\ \A i \in 1..(Len(marks) - 1) : Attempted(p, marks[i])
                  /\ GroupDone(p)
                       => /\ marks = rows
                          /\ \A i \in 1..Len(rows) : Attempted(p, rows[i]))
  /\ [][ \A p \in Invocations :
           pc[p] = "thread" /\ pc'[p] # "thread"
             => LET rows == RowNumbers(loc'[p].threadRows)
                IN /\ \A i, j \in 1..Len(rows) : i < j => rows[i] < rows[j]
                   /\ \A r \in OpenGroupRows(p) : \E i \in 1..Len(rows) : rows[i] = r
                   /\ loc[p].target.rowNumber \in OpenGroupRows(p)
       ]_vars

\* a group run has ended after it published, before its triggering row, a
\* row of the group that has no schedule of its own
C26_Witness ==
  \E p \in Invocations :
    /\ GroupDone(p)
    /\ Len(RowPosts(p)) = 2
    /\ RowPosts(p)[1].row < loc[p].target.rowNumber
    /\ ~ScheduledAtOfRow(RowAt(sheet, RowPosts(p)[1].row)).ok
    /\ RowPosts(p)[2].row = loc[p].target.rowNumber
    /\ RowPosts(p)[2].replyTo = RowPosts(p)[1].id

-----------------------------------------------------------------------------
\* One run that holds the lock, over sheets of three rows

RunLen == 3

RunTemplates ==
  { DueAtT0(Hi, 0, NoteLink, NoResult, GroupG, <<>>),
    Unscheduled(LongText, 0, NoNote, NoResult, GroupG, <<>>),
    DueAtT0(Hi, maxImages + 1, NoNote, NoResult, GroupG, statusPending),
    DueAtT0(Hi, maxImages + 1, NoteValue, NoResult, <<>>, <<>>) }

RunSheets == SheetsOfLen(RunTemplates, RunLen)

\* the state after lock.tryLock succeeded, with the credentials in place
RunInit ==
  /\ sheet \in RunSheets
  /\ config \in Configs
  /\ props = [credentials |-> TRUE, xPlanType |-> ""]
  /\ trigger = "serial"
  /\ now = T0
  /\ lockHolder = 1
  /\ pc = [p \in Invocations |-> IF p = 1 THEN "find" ELSE "idle"]
  /\ loc = [p \in Invocations |->
              IF p = 1 THEN [InitLoc EXCEPT !.hasLock = TRUE] ELSE InitLoc]
  /\ calls = [p \in Invocations |-> <<>>]
  /\ nextId = FirstId
  /\ runs = 1
  /\ outcome = [p \in Invocations |-> IF p = 1 THEN "running" ELSE "none"]
  /\ preview = NoPreview
  /\ counted = NoCount
  /\ refresh = NoRefresh

RunNext ==
  \E p \in Invocations :
    \/ FindTarget(p)
    \/ SingleStart(p)
    \/ SingleUpload(p)
    \/ SinglePost(p)
    \/ SingleNote(p)
    \/ ThreadFind(p)
    \/ ThreadRowStart(p)
    \/ ThreadUpload(p)
    \/ ThreadPost(p)
    \/ ThreadSleep(p)
    \/ ThreadNote(p)
    \/ SetValue(p)
    \/ Finally(p)
    \/ Exit(p)

RunSpec == RunInit /\ [][RunNext]_vars

-----------------------------------------------------------------------------
\* the count of the content is over the maximum of the plan in force
OverPlanLimit(content) ==
  countTwitterCharacters_(content)
    > (IF props.xPlanType \in {"basic", "premium"}
       THEN paidCharacterLimit ELSE freeCharacterLimit)

\* the loop of p's group run has gone past the i-th resolved row
PastRow(p, i) ==
  \/ loc[p].i > i
  \/ loc[p].i = i /\ pc[p] \in {"t_note", "finally", "exit", "idle"}

\* the writes p's run has made or is about to make to a row, in order
WritesTo(p, rowNumber) ==
  SelectSeq(loc[p].applied \o loc[p].writes, LAMBDA w : w.row = rowNumber)

\* the id of the last post of a row created before the j-th call of p's run,
\* 0 when there is none
LastPostBefore(p, j) ==
  LET made == {i \in 1..(j - 1) :
                 calls[p][i].op = "publish" /\ calls[p][i].row # 0 /\ calls[p][i].ok}
  IN IF made = {} THEN 0
     ELSE calls[p][CHOOSE i \in made : \A x \in made : x <= i].id

(* C27: in a group run with skip-on-exceed, a row whose count is over the   *)
(* limit is marked failed with a length-exceeded detail and no PostingClient *)
(* call is made for it; the run is not ended by it, the rows after it are   *)
(* published, and every row published replies to the last post created      *)
(* before it in the run, or to nothing when there is none.                   *)
C27_ThreadSkipOnExceed ==
  \A p \in Invocations :
    ( /\ ThreadRun(p)
      /\ loc[p].hasLock
      /\ props.credentials
      /\ config.enabled
      /\ config.skipOnExceed )
      => /\ \A i \in 1..Len(loc[p].threadRows) :
              LET row == loc[p].threadRows[i]
                  r == row.rowNumber
              IN IF OverPlanLimit(row.content)
                 THEN /\ \A j \in 1..Len(calls[p]) : calls[p][j].row # r
                      /\ PastRow(p, i)
                           => WritesTo(p, r) =
                                <<StatusWrite(r, statusPosting),
                                  StatusWrite(r, statusFailed),
                                  ResultWrite(r, MsgOf("length exceeded"))>>
                      /\ PastRow(p, i) /\ pc[p] = "finally" /\ loc[p].writes = <<>>
                           => /\ RowAt(sheet, r)[colStatus] = statusFailed
                              /\ ResultOf(r) = MsgOf("length exceeded")
                 ELSE GroupDone(p)
                        => \E j \in 1..Len(calls[p]) :
                             /\ calls[p][j].op = "publish"
                             /\ calls[p][j].row = r
                             /\ calls[p][j].ok
         /\ \A j \in 1..Len(calls[p]) :
              calls[p][j].op = "publish" /\ calls[p][j].row # 0
                => calls[p][j].replyTo = LastPostBefore(p, j)
         /\ loc[p].error => MainPublishFailure(p)
         /\ pc[p] = "idle" /\ ~MainPublishFailure(p) => outcome[p] = "ok"

\* a group of three rows is done: the second was over the limit and is
\* failed, the third was published as a reply to the first
C27_Witness ==
  \E p \in Invocations :
    /\ GroupDone(p)
    /\ config.enabled /\ config.skipOnExceed
    /\ Len(loc[p].threadRows) = 3
    /\ OverPlanLimit(loc[p].threadRows[2].content)
    /\ StatusOf(loc[p].threadRows[2].rowNumber) = statusFailed
    /\ Len(RowPosts(p)) = 2
    /\ RowPosts(p)[1].row = loc[p].threadRows[1].rowNumber
    /\ RowPosts(p)[2].row = loc[p].threadRows[3].rowNumber
    /\ RowPosts(p)[2].replyTo = RowPosts(p)[1].id
    /\ pc[p] = "idle"

-----------------------------------------------------------------------------
\* the positions of the publish calls in the log of p's run
PublishAt(p) == {i \in 1..Len(calls[p]) : calls[p][i].op = "publish"}

(* C28: in a group run a pacing delay lies between any two publish calls    *)
(* that follow one another, row posts and link reply alike; and when the    *)
(* last resolved row has been published and no link reply follows, that     *)
(* publish is the last thing the run did: no pacing delay comes after it.   *)
C28_PacingDelay ==
  \A p \in Invocations :
    ThreadRun(p)
      => /\ \A a, b \in PublishAt(p) :
              a < b => \E c \in (a + 1)..(b - 1) : calls[p][c].op = "sleep"
         /\ ( /\ GroupDone(p)
              /\ NoteCalls(p) = <<>>
              /\ RowPosts(p) # <<>>
              /\ RowPosts(p)[Len(RowPosts(p))].row =
                   loc[p].threadRows[Len(loc[p].threadRows)].rowNumber )
              => calls[p][Len(calls[p])] = RowPosts(p)[Len(RowPosts(p))]

\* three rows of a group were published with two delays in all, and the run
\* ended on the publish of the third
C28_Witness ==
  \E p \in Invocations :
    /\ GroupDone(p)
    /\ pc[p] = "idle"
    /\ Len(RowPosts(p)) = 3
    /\ NoteCalls(p) = <<>>
    /\ Len(SelectSeq(calls[p], LAMBDA e : e.op = "sleep")) = 2
    /\ calls[p][Len(calls[p])].op = "publish"

-----------------------------------------------------------------------------
\* the events this step adds to the log of p's run
NewCalls(p) == SubSeq(calls'[p], Len(calls[p]) + 1, Len(calls'[p]))

\* a write of p's run that has reached the sheet set the row to the status
Applied(p, rowNumber, status) ==
  \E i \in 1..Len(loc[p].applied) :
    loc[p].applied[i] = StatusWrite(rowNumber, status)

\* in a group run, the resolved row before rowNumber, if there is one, has had
\* its posted or failed written
PreviousRowSettled(p, rowNumber) ==
  ThreadRun(p) =>
    \A k \in 2..Len(loc[p].threadRows) :
      loc[p].threadRows[k].rowNumber = rowNumber
        => \/ Applied(p, loc[p].threadRows[k - 1].rowNumber, statusPosted)
           \/ Applied(p, loc[p].threadRows[k - 1].rowNumber, statusFailed)

(* C29: in both publishers a PostingClient call for a row is made only once *)
(* the row's posting mark has reached the sheet; the URL reaches the result *)
(* field before the row is marked posted; in a group the posted or failed   *)
(* write of a row precedes the posting write and every call of the row      *)
(* after it; and the calls of a run come one at a time, from the holder of  *)
(* the lock, with none of its writes outstanding.                           *)
C29_RowOrdering ==
  [][ \A p \in Invocations :
        /\ (pc[p] # "idle" /\ calls'[p] # calls[p])
             => /\ lockHolder = p
                /\ loc[p].writes = <<>>
                /\ \A q \in Invocations \ {p} : calls'[q] = calls[q]
                /\ Cardinality({i \in 1..Len(NewCalls(p)) :
                                  NewCalls(p)[i].op \in {"publish", "upload"}}) <= 1
                /\ \A i \in 1..Len(NewCalls(p)) :
                     NewCalls(p)[i].row # 0
                       => /\ Applied(p, NewCalls(p)[i].row, statusPosting)
                          /\ RowAt(sheet, NewCalls(p)[i].row)[colStatus] = statusPosting
                          /\ PreviousRowSettled(p, NewCalls(p)[i].row)
        /\ AppliesStatus(p)
             => LET w == Head(loc[p].writes)
                IN /\ w.status = statusPosted
                        => /\ \E i \in 1..Len(loc[p].applied) :
                                /\ loc[p].applied[i].row = w.row
                                /\ loc[p].applied[i].col = colPostedUrl
                                /\ loc[p].applied[i].result.kind = "url"
                           /\ ResultOf(w.row).kind = "url"
                   /\ w.status = statusPosting => PreviousRowSettled(p, w.row)
    ]_vars

\* a group run has published its second row after uploads for it, the first
\* row being posted with its URL
C29_Witness ==
  \E p \in Invocations :
    /\ ThreadRun(p)
    /\ Len(RowPosts(p)) = 2
    /\ \E i \in 1..Len(calls[p]) :
         calls[p][i].op = "upload" /\ calls[p][i].row = RowPosts(p)[2].row
    /\ StatusOf(RowPosts(p)[1].row) = statusPosted
    /\ ResultOf(RowPosts(p)[1].row) = UrlOf(RowPosts(p)[1].id)
    /\ StatusOf(RowPosts(p)[2].row) = statusPosted
    /\ pc[p] = "idle"

-----------------------------------------------------------------------------
\* the upload calls made for a row before the j-th call of p's run
UploadsBefore(p, rowNumber, j) ==
  SelectSeq(SubSeq(calls[p], 1, j - 1),
            LAMBDA e : e.op = "upload" /\ e.row = rowNumber)

\* the media ids returned by the uploads of a list that succeeded, in order
IdsOf(uploads) ==
  LET good == SelectSeq(uploads, LAMBDA e : e.ok)
  IN [i \in 1..Len(good) |-> good[i].media[1]]

(* C30: in both publishers the publish call of a row carries exactly the    *)
(* media ids of the uploads made for the row that succeeded, in attachment  *)
(* order and at most four of them, none when every upload failed; a failed  *)
(* upload does not end the run, the publish call follows the uploads all    *)
(* the same, and the row is marked failed only when that publish call       *)
(* fails.                                                                   *)
C30_FailedUploadDropped ==
  \A p \in Invocations :
    loc[p].hasLock
      => /\ \A j \in 1..Len(calls[p]) :
              LET e == calls[p][j]
                  ups == UploadsBefore(p, e.row, j)
              IN /\ (e.op = "publish" /\ e.row # 0)
                      => /\ e.media = IdsOf(ups)
                         /\ Len(e.media) <= maxImages
                         /\ Len(ups) = getImagesFromCell_(sheet, e.row)
                         /\ \A i \in 1..Len(ups) : ups[i].media = <<i>>
                 /\ e.op = "upload"
                      => /\ Len(ups) < maxImages
                         /\ RunOver(p)
                              => \E x \in (j + 1)..Len(calls[p]) :
                                   calls[p][x].op = "publish" /\ calls[p][x].row = e.row
                         /\ Applied(p, e.row, statusFailed)
                              => \E x \in (j + 1)..Len(calls[p]) :
                                   /\ calls[p][x].op = "publish"
                                   /\ calls[p][x].row = e.row
                                   /\ ~calls[p][x].ok
         /\ loc[p].error /\ props.credentials /\ loc[p].writes = <<>>
              => MainPublishFailure(p) \/ FatalLength(p)

\* a group run has ended normally: one row was published without media after
\* its four uploads failed, another with the ids of its second and fourth
\* uploads, and both are posted
C30_Witness ==
  \E p \in Invocations :
    /\ GroupDone(p)
    /\ pc[p] = "idle"
    /\ outcome[p] = "ok"
    /\ Len(RowPosts(p)) >= 2
    /\ RowAt(sheet, RowPosts(p)[1].row)[colImage] > maxImages
    /\ RowPosts(p)[1].media = <<>>
    /\ RowPosts(p)[2].media = <<2, 4>>
    /\ StatusOf(RowPosts(p)[1].row) = statusPosted
    /\ StatusOf(RowPosts(p)[2].row) = statusPosted

-----------------------------------------------------------------------------
\* the last status that a write of p's run has put in the row, <<>> if none
LastStatusSet(p, rowNumber) ==
  LET ws == StatusWritesTo(p, rowNumber)
  IN IF ws = <<>> THEN <<>> ELSE ws[Len(ws)].status

\* the result field of the row holds the URL of a post that a publish call of
\* p's run created for this row
HoldsOwnUrl(p, rowNumber) ==
  \E j \in 1..Len(calls[p]) :
    /\ calls[p][j].op = "publish"
    /\ calls[p][j].row = rowNumber
    /\ calls[p][j].ok
    /\ ResultOf(rowNumber) = UrlOf(calls[p][j].id)

\* what the result field of a row must hold given the status p's run set
ResultMatchesStatus(p, rowNumber) ==
  /\ LastStatusSet(p, rowNumber) = statusPosted => HoldsOwnUrl(p, rowNumber)
  /\ LastStatusSet(p, rowNumber) = statusFailed => ResultOf(rowNumber).kind = "msg"

(* C31: in every state reached by the writes of a publisher, a row that the *)
(* publisher set to posted holds in its result field the URL returned by    *)
(* the row's own publish call, and a row it set to failed holds the failure *)
(* detail.  setRowStatus_ writes the status cell before the result cell, so *)
(* between its two writes a failed row holds what the field held before.    *)
C31_ResultMatchesStatus ==
  \A p \in Invocations :
    lockHolder = p
      => \A k \in 1..Len(sheet) : ResultMatchesStatus(p, RowNumberOf(k))

-----------------------------------------------------------------------------
\* One run over a row whose length is at or just over the maximum of a plan

TextOfLen(n) == [k \in 1..n |-> "a"]

LimitContents ==
  { TextOfLen(freeCharacterLimit), TextOfLen(freeCharacterLimit + 1),
    TextOfLen(paidCharacterLimit), TextOfLen(paidCharacterLimit + 1) }

\* the saved xPlanType property: unset, or one of the three plans
PlanTypes == {"", "free", "basic", "premium"}

LimitInit ==
  /\ \E c \in LimitContents, g \in {<<>>, GroupG} :
       sheet = << DueAtT0(c, 0, NoNote, NoResult, g, <<>>) >>
  /\ config \in Configs
  /\ \E plan \in PlanTypes : props = [credentials |-> TRUE, xPlanType |-> plan]
  /\ trigger = "serial"
  /\ now = T0
  /\ lockHolder = 1
  /\ pc = [p \in Invocations |-> IF p = 1 THEN "find" ELSE "idle"]
  /\ loc = [p \in Invocations |->
              IF p = 1 THEN [InitLoc EXCEPT !.hasLock = TRUE] ELSE InitLoc]
  /\ calls = [p \in Invocations |-> <<>>]
  /\ nextId = FirstId
  /\ runs = 1
  /\ outcome = [p \in Invocations |-> IF p = 1 THEN "running" ELSE "none"]
  /\ preview = NoPreview
  /\ counted = NoCount
  /\ refresh = NoRefresh

LimitNext ==
  \E p \in Invocations :
    \/ FindTarget(p)
    \/ SingleStart(p)
    \/ SinglePost(p)
    \/ ThreadFind(p)
    \/ ThreadRowStart(p)
    \/ ThreadPost(p)
    \/ SetValue(p)
    \/ Finally(p)
    \/ Exit(p)

LimitSpec == LimitInit /\ [][LimitNext]_vars

\* the maximum of the plan in force: 25000 for the paid plans, 140 otherwise
PlanMaximum ==
  IF props.xPlanType \in {"basic", "premium"} THEN paidCharacterLimit
  ELSE freeCharacterLimit

\* a write of p's run, made or about to be made, fails a row for its length
FailedForLength(p) ==
  \E i \in 1..Len(loc[p].applied \o loc[p].writes) :
    (loc[p].applied \o loc[p].writes)[i].result = MsgOf("length exceeded")

(* C32: the limit is inclusive.  With the policy enabled a row of plain     *)
(* text whose length equals the maximum of the plan, 140 or 25000, is never *)
(* failed for its length and its content is published; a row one character  *)
(* longer is failed for its length and never published.  With the policy    *)
(* disabled no row is failed for its length.                                *)
C32_InclusiveLimit ==
  \A p \in Invocations :
    loc[p].hasLock /\ loc[p].target.rowNumber # 0
      => LET content == loc[p].target.content
             over == config.enabled /\ Len(content) > PlanMaximum
             started == pc[p] \notin {"find", "single", "thread", "t_row"}
         IN /\ over => calls[p] = <<>>
            /\ over /\ started => FailedForLength(p)
            /\ ~over => ~FailedForLength(p)
            /\ ~over /\ started /\ RunOver(p)
                 => /\ Len(calls[p]) = 1
                    /\ calls[p][1].op = "publish"
                    /\ calls[p][1].text = content

\* under the free plan a row of exactly 140 characters has been published and
\* is posted
C32_Witness ==
  \E p \in Invocations :
    /\ props.xPlanType = "free"
    /\ config.enabled
    /\ Len(loc[p].target.content) = freeCharacterLimit
    /\ Len(RowPosts(p)) = 1
    /\ StatusOf(loc[p].target.rowNumber) = statusPosted
    /\ pc[p] = "idle"

-----------------------------------------------------------------------------
\* the number an hour or minute cell stands for: 0 when blank, else its digits
RefTimeOfDay(cell) == IF cell = <<>> THEN 0 ELSE ParseInt(Trim(cell)).n

\* scheduledAt of the row by the rule of C33, for a row with a valid date
RefScheduledAt(row) ==
  IF TimeCellUndefined(row[colHour], 23) \/ TimeCellUndefined(row[colMinute], 59)
  THEN NullDate
  ELSE DateAt(baseDate(row[colDay]).ms + RefTimeOfDay(row[colHour]) * HourMs
                + RefTimeOfDay(row[colMinute]) * MinuteMs)

\* the row has a date that the selector can read
ValidDate(row) == row[colDay].t # "blank" /\ baseDate(row[colDay]).ok

(* C33: for a row with a valid date the selector takes a blank hour and a   *)
(* blank minute as 0, an hour 0..23 and a minute 0..59 as given, and leaves *)
(* scheduledAt undefined for any other hour or minute, so that such a row   *)
(* is never returned.  The code breaks this for an hour or minute that      *)
(* starts with digits, such as 12x, which parseInt reads as 12.             *)
C33_TimeOfDay ==
  preview.called
    => \A k \in 1..Len(sheet) :
         ValidDate(sheet[k])
           => /\ ScheduledAtOfRow(sheet[k]) = RefScheduledAt(sheet[k])
              /\ preview.row.rowNumber = RowNumberOf(k)
                   => /\ RefScheduledAt(sheet[k]).ok
                      /\ preview.row.scheduledAt = RefScheduledAt(sheet[k])

-----------------------------------------------------------------------------
\* the rows that a write of p's run has marked posting
MarkedPosting(p) ==
  {RowNumberOf(k) : k \in {x \in 1..Len(sheet) : Applied(p, RowNumberOf(x), statusPosting)}}

(* C35: when a run that got the lock is about to release it, normally or    *)
(* after an error, every row the run marked posting has since been marked   *)
(* posted or failed by the run and reads posted or failed in the sheet; the *)
(* run writes nothing after the release.                                    *)
C35_NoRowLeftPosting ==
  \A p \in Invocations :
    RunOver(p)
      => \A r \in MarkedPosting(p) :
           /\ LastStatusSet(p, r) \in {statusPosted, statusFailed}
           /\ pc[p] = "finally" => StatusOf(r) \in {statusPosted, statusFailed}

\* a group run ended with an error after it had marked two rows posting: the
\* first is posted and the second, whose publish call failed, is failed
C35_Witness ==
  \E p \in Invocations :
    /\ RunOver(p)
    /\ pc[p] = "idle"
    /\ outcome[p] = "error"
    /\ Cardinality(MarkedPosting(p)) = 2
    /\ \E r1, r2 \in MarkedPosting(p) :
         /\ r1 < r2
         /\ LastStatusSet(p, r1) = statusPosted
         /\ LastStatusSet(p, r2) = statusFailed

-----------------------------------------------------------------------------
\* p's tryLock timed out and p has not yet ended
TimedOut(p) == ~loc[p].hasLock /\ pc[p] \in {"finally", "exit"}

-----------------------------------------------------------------------------
(* One due row, with and without a threadGroupId: the same row goes through *)
(* postThreadGroup_ as a group of one and through postSingleRow_.           *)

UnitContents == {Hi, LongText}

UnitImages == {0, 2, maxImages + 1}

UnitSheets ==
  { <<DueAtT0(content, image, note, NoResult, group, <<>>)>> :
      content \in UnitContents, image \in UnitImages,
      note \in {NoNote, NoteLink}, group \in {<<>>, GroupG} }

UnitInit ==
  /\ sheet \in UnitSheets
  /\ config \in Configs
  /\ props = [credentials |-> TRUE, xPlanType |-> ""]
  /\ trigger = "serial"
  /\ now = T0
  /\ lockHolder = 1
  /\ pc = [p \in Invocations |-> IF p = 1 THEN "find" ELSE "idle"]
  /\ loc = [p \in Invocations |->
              IF p = 1 THEN [InitLoc EXCEPT !.hasLock = TRUE] ELSE InitLoc]
  /\ calls = [p \in Invocations |-> <<>>]
  /\ nextId = FirstId
  /\ runs = 1
  /\ outcome = [p \in Invocations |-> IF p = 1 THEN "running" ELSE "none"]
  /\ preview = NoPreview
  /\ counted = NoCount
  /\ refresh = NoRefresh

UnitNext ==
  \E p \in Invocations :
    \/ FindTarget(p)
    \/ SingleStart(p)
    \/ SingleUpload(p)
    \/ SinglePost(p)
    \/ SingleNote(p)
    \/ ThreadFind(p)
    \/ ThreadRowStart(p)
    \/ ThreadUpload(p)
    \/ ThreadPost(p)
    \/ ThreadNote(p)
    \/ SetValue(p)
    \/ Finally(p)
    \/ Exit(p)

UnitSpec == UnitInit /\ [][UnitNext]_vars

\* the upload calls of a row with that many images, given each call's answer
RECURSIVE RefUploads(_, _, _)
RefUploads(rowNumber, answers, blob) ==
  IF blob > Len(answers) THEN <<>>
  ELSE <<UploadEvent(rowNumber, blob, answers[blob])>>
       \o RefUploads(rowNumber, answers, blob + 1)

\* the media ids that reach the publish call: the uploads that succeeded
RefMediaIds(answers) ==
  LET all == [b \in 1..Len(answers) |-> b]
  IN SelectSeq(all, LAMBDA b : answers[b])

\* what the single-row publisher does to a row, as a function of the row and
\* of the answers of the PostingClient: the row's final status and result,
\* the PostingClient calls in order, and whether the run ends with an error
RefSingleRun(target, images, answers, publishOk, noteOk, firstId) ==
  LET rowNumber == target.rowNumber
      verdict == LimitVerdict(target.content)
      uploads == RefUploads(rowNumber, answers, 1)
      mediaIds == RefMediaIds(answers)
  IN IF target.content = <<>>
     THEN [status |-> statusFailed, result |-> MsgOf("content empty"),
           calls |-> <<>>, error |-> FALSE]
     ELSE IF verdict # "ok"
     THEN [status |-> statusFailed, result |-> MsgOf("length exceeded"),
           calls |-> <<>>, error |-> (verdict = "fatal")]
     ELSE IF ~publishOk
     THEN [status |-> statusFailed, result |-> MsgOf("api error"),
           calls |-> Append(uploads, PublishEvent(rowNumber, target.content, 0,
                                                  mediaIds, FALSE, 0)),
           error |-> TRUE]
     ELSE [status |-> statusPosted, result |-> UrlOf(firstId),
           calls |-> Append(uploads, PublishEvent(rowNumber, target.content, 0,
                                                  mediaIds, TRUE, firstId))
                     \o (IF target.noteUrl = <<>> THEN <<>>
                         ELSE <<PublishEvent(0, target.noteUrl, firstId, <<>>, noteOk,
                                             IF noteOk THEN firstId + 1 ELSE 0)>>),
           error |-> FALSE]

\* the PostingClient calls of p's run, in order
ClientCalls(p) == SelectSeq(calls[p], LAMBDA e : e.op \in {"upload", "publish"})

\* p's run is over and handled its target as the single-row publisher would,
\* for the answers the PostingClient gave
RanAsSingle(p) ==
  LET target == loc[p].target
      images == getImagesFromCell_(sheet, target.rowNumber)
  IN \E answers \in [1..images -> BOOLEAN], publishOk, noteOk \in BOOLEAN :
       LET ref == RefSingleRun(target, images, answers, publishOk, noteOk, FirstId)
       IN /\ ClientCalls(p) = ref.calls
          /\ StatusOf(target.rowNumber) = ref.status
          /\ ResultOf(target.rowNumber) = ref.result
          /\ loc[p].error = ref.error

\* p's run resolved a group of exactly one row
GroupOfOne(p) ==
  /\ loc[p].target.threadGroupId # <<>>
  /\ Len(loc[p].threadRows) = 1

(* C38: a run of postThreadGroup_ on a group whose resolved list has        *)
(* exactly one row leaves that row with the status and result, makes the    *)
(* PostingClient calls (uploads, publish with no reply target, link reply   *)
(* to the new post) and ends with the error outcome that postSingleRow_     *)
(* gives for the same row and the same answers; runs of postSingleRow_      *)
(* itself are held to the same reference.                                   *)
C38_GroupOfOneAsSingle ==
  \A p \in Invocations :
    pc[p] = "finally" /\ RunOver(p) /\ loc[p].target.rowNumber # 0
    /\ (GroupOfOne(p) \/ loc[p].target.threadGroupId = <<>>)
      => RanAsSingle(p)

\* a group of one row with images and a reply link was published and its
\* link reply posted
C38_Witness ==
  \E p \in Invocations :
    /\ pc[p] = "finally"
    /\ RunOver(p)
    /\ GroupOfOne(p)
    /\ StatusOf(loc[p].target.rowNumber) = statusPosted
    /\ Len(ClientCalls(p)) = maxImages + 2
    /\ ClientCalls(p)[maxImages + 2].replyTo = FirstId

-----------------------------------------------------------------------------
(* The time-driven trigger at its slowest: one invocation every tolerance   *)
(* interval, each finished before the next, credentials present and every   *)
(* publish call answered with success.                                      *)

DueLen == 2

DueRuns == 4

\* the clock reading of the n-th invocation: the first is one tolerance
\* interval before T0, the last one interval after the window of T1 opened
DueClock(n) == T0 + (n - 2) * toleranceMs

DueTemplates ==
  { DueAtT0(Hi, 0, NoNote, NoResult, <<>>, <<>>),
    DueAtT0(LongText, 0, NoNote, NoResult, <<>>, <<>>),
    DueAtT0(Hi, 1, NoteLink, NoResult, GroupG, <<>>),
    DueAtT1(Hi, 1, NoteLink, NoResult, <<>>, <<>>) }

DueSheets == SheetsOfLen(DueTemplates, DueLen)

DueInit ==
  /\ sheet \in DueSheets
  /\ config \in Configs
  /\ props = [credentials |-> TRUE, xPlanType |-> ""]
  /\ trigger = "serial"
  /\ now = DueClock(1)
  /\ lockHolder = 0
  /\ pc = [p \in Invocations |-> "idle"]
  /\ loc = [p \in Invocations |-> InitLoc]
  /\ calls = [p \in Invocations |-> <<>>]
  /\ nextId = FirstId
  /\ runs = 0
  /\ outcome = [p \in Invocations |-> "none"]
  /\ preview = NoPreview
  /\ counted = NoCount
  /\ refresh = NoRefresh

\* every publish call of the runs so far was answered with success
PublishesSucceed ==
  \A p \in Invocations :
    \A n \in 1..Len(calls[p]) : calls[p][n].op = "publish" => calls[p][n].ok

\* the four steps that call publish are taken with a successful answer only
DueNext ==
  \E p \in Invocations :
    \/ InvokeUpTo(p, DueRuns)
    \/ TryLockAcquired(p)
    \/ FindTargetAt(p, {DueClock(runs)})
    \/ SingleStart(p)
    \/ SingleUpload(p)
    \/ SinglePost(p) /\ PublishesSucceed'
    \/ SingleNote(p) /\ PublishesSucceed'
    \/ ThreadFind(p)
    \/ ThreadRowStart(p)
    \/ ThreadUpload(p)
    \/ ThreadPost(p) /\ PublishesSucceed'
    \/ ThreadSleep(p)
    \/ ThreadNote(p) /\ PublishesSucceed'
    \/ SetValue(p)
    \/ Finally(p)
    \/ Exit(p)

\* the trigger keeps firing and a started run goes on to its end
DueSpec == DueInit /\ [][DueNext]_vars /\ WF_vars(DueNext)

\* the k-th row has content within the limit of the plan and a defined
\* scheduledAt whose window is not over when the first invocation runs
DueRow(k) ==
  /\ k <= Len(sheet)
  /\ Trim(sheet[k][colContent]) # <<>>
  /\ ~OverPlanLimit(Trim(sheet[k][colContent]))
  /\ ScheduledAtOfRow(sheet[k]).ok
  /\ ~TooOld(ScheduledAtOfRow(sheet[k]).ms, DueClock(1))

(* C36: with one invocation every tolerance interval, the credentials in    *)
(* place and every publish call successful, every row with content within   *)
(* the limit and a scheduledAt whose window is still open is eventually     *)
(* posted, whatever the other rows of the sheet are.                        *)
C36_DueRowsPosted ==
  \A k \in 1..DueLen :
    <>(DueRow(k) => StatusOf(RowNumberOf(k)) = statusPosted)

-----------------------------------------------------------------------------
(* The engagement refresh: dailyEngagementUpdate collects the posted rows   *)
(* and processEngagementUpdates_ fetches and stores the metrics of each.    *)
(* It takes no lock, so its steps interleave with those of a publisher run. *)

colLikeCount == 11

colRetweetCount == 12

colReplyCount == 13

colQuoteCount == 14

colImpressionCount == 15

colBookmarkCount == 16

colLastUpdated == 17

\* dailyEngagementUpdate: const daysBack = 30
daysBack == 30

EngagementColumns == colLikeCount..colLastUpdated

\* a row of the sheet with its seven engagement cells still empty
WithEngagement(row) == row \o [c \in 1..(colLastUpdated - colStatus) |-> DayBlank]

\* extractTweetId_: the id of a stored URL, 0 when the cell holds no URL
extractTweetId_(result) == IF result.kind = "url" THEN result.id ELSE 0

\* !day || new Date(day) >= cutoffDate.  A number is read as milliseconds
\* after 1970-01-01, which lies before the cutoff of every run; a text is
\* parsed, and an unparsable one gives an invalid date, which compares false.
InPeriod(day, t) ==
  LET age == t - day.v
      recent == \/ age \div DayMs < daysBack
                \/ age \div DayMs = daysBack /\ age % DayMs = 0
  IN CASE day.t = "blank" -> TRUE
       [] day.t = "num" -> day.v = 0
       [] day.t = "date" -> recent
       [] OTHER -> day.v >= 0 /\ recent

RECURSIVE CollectTargets(_, _, _)
\* lines 800-817: the rows whose status reads posted, whose result holds a
\* URL with a tweet id and whose day is blank or within the period
CollectTargets(sh, index, t) ==
  IF index > Len(sh) THEN <<>>
  ELSE LET status == ToLowerCase(Trim(sh[index][colStatus]))
           tweetId == extractTweetId_(sh[index][colPostedUrl])
           rest == CollectTargets(sh, index + 1, t)
       IN IF status = statusPosted /\ InPeriod(sh[index][colDay], t) /\ tweetId # 0
          THEN <<[rowNumber |-> index + 1, tweetId |-> tweetId]>> \o rest
          ELSE rest

\* getXPlanConfig().limits.canAccessPremiumMetrics
canAccessPremiumMetrics(xPlanType) == xPlanType \in {"basic", "premium"}

\* the public metrics the API reports for a post
Metrics ==
  [like_count |-> 3, retweet_count |-> 1, reply_count |-> 0, quote_count |-> 0,
   impression_count |-> 5, bookmark_count |-> 1]

\* what getTweetEngagement_ does: return the metrics, throw for the status
\* code 429, or throw for another reason with a message that has no "429"
Answers == {"ok", "429", "error"}

EngagementWrite(rowNumber, col, value) ==
  [row |-> rowNumber, col |-> col, status |-> <<>>, result |-> value]

\* lines 638-651: the setValue calls for one target, in order
EngagementWrites(rowNumber, xPlanType, t) ==
  <<EngagementWrite(rowNumber, colLikeCount, DayNum(Metrics.like_count)),
    EngagementWrite(rowNumber, colRetweetCount, DayNum(Metrics.retweet_count)),
    EngagementWrite(rowNumber, colReplyCount, DayNum(Metrics.reply_count)),
    EngagementWrite(rowNumber, colQuoteCount, DayNum(Metrics.quote_count))>>
  \o (IF canAccessPremiumMetrics(xPlanType)
      THEN <<EngagementWrite(rowNumber, colImpressionCount,
                             DayNum(Metrics.impression_count)),
             EngagementWrite(rowNumber, colBookmarkCount,
                             DayNum(Metrics.bookmark_count))>>
      ELSE <<>>)
  \o <<EngagementWrite(rowNumber, colLastUpdated, DayDate(t))>>

RECURSIVE setValues(_, _)
setValues(sh, writes) ==
  IF writes = <<>> THEN sh ELSE setValues(setValue(sh, Head(writes)), Tail(writes))

\* counters are kept exactly up to MaxCount; a larger count is kept as MaxCount
MaxCount == 3

Counted(n) == IF n < MaxCount THEN n + 1 ELSE MaxCount

\* lines 666-671: after a 429 the loop sleeps and repeats the same target
AfterRateLimit(last) == "backoff"

\* line 664: failCount++ on every caught error
failCountAfter(failCount, answer) == Counted(failCount)

\* dailyEngagementUpdate up to the call of processEngagementUpdates_
Collect ==
  /\ refresh.pc = "idle"
  /\ LET targetRows == IF props.credentials THEN CollectTargets(sheet, 1, now)
                       ELSE <<>>
     IN refresh' = [refresh EXCEPT
          !.pc = IF targetRows = <<>> THEN "done" ELSE "loop",
          !.targetRows = targetRows,
          !.i = 1,
          !.requests = [k \in 1..Len(targetRows) |-> 0]]
  /\ UNCHANGED <<sheet, now, props, config, trigger, lockHolder, pc, loc, calls,
                 nextId, runs, outcome, preview, counted>>

\* one pass of the loop body: the request for target i and what follows it
Request ==
  /\ refresh.pc = "loop"
  /\ \E answer \in Answers :
       LET i == refresh.i
           target == refresh.targetRows[i]
           last == i = Len(refresh.targetRows)
           asked == [refresh EXCEPT !.requests[i] = Counted(@)]
       IN IF answer = "ok"
          THEN /\ sheet' = setValues(sheet, EngagementWrites(target.rowNumber,
                                                             props.xPlanType, now))
               /\ refresh' = [asked EXCEPT
                    !.successCount = Counted(@),
                    !.written = @ \cup {i},
                    !.i = IF last THEN @ ELSE @ + 1,
                    !.pc = IF last THEN "done" ELSE "loop"]
          ELSE /\ sheet' = sheet
               /\ refresh' = [asked EXCEPT
                    !.failCount = failCountAfter(@, answer),
                    !.i = IF last \/ answer = "429" THEN @ ELSE @ + 1,
                    !.pc = IF answer = "429" THEN AfterRateLimit(last)
                           ELSE IF last THEN "done" ELSE "loop"]
  /\ UNCHANGED <<now, props, config, trigger, lockHolder, pc, loc, calls, nextId, runs,
                 outcome, preview, counted>>

\* Utilities.sleep(60000); i--; continue
Backoff ==
  /\ refresh.pc = "backoff"
  /\ refresh' = [refresh EXCEPT !.pc = "loop"]
  /\ UNCHANGED <<sheet, now, props, config, trigger, lockHolder, pc, loc, calls,
                 nextId, runs, outcome, preview, counted>>

EngLen == 2

\* a row whose day cell holds the date of T0
DatedAtT0(content, image, note, result, group, status) ==
  Row(content, image, note, DayDate(2 * DayMs), <<"1", "2">>, <<>>, result, group,
      status)

EngTemplates ==
  { DatedAtT0(Hi, 0, NoNote, UrlOf(1), <<>>, <<" ", "P", "o", "s", "t", "e", "d">>),
    DatedAtT0(Hi, 0, NoNote, UrlOf(2), GroupG, statusPosted),
    DatedAtT0(Hi, 0, NoteLink, NoResult, GroupG, <<>>),
    DatedAtT0(Hi, 1, NoteLink, UrlOf(4), <<>>, statusFailed),
    Row(Hi, 0, NoNote, DayStr(-1), <<>>, <<>>, UrlOf(3), <<>>, statusPosted),
    Row(Hi, 0, NoNote, DayBlank, <<>>, <<>>, NoResult, <<>>, statusPosted) }

EngSheets ==
  {[k \in 1..EngLen |-> WithEngagement(sh[k])] : sh \in SheetsOfLen(EngTemplates, EngLen)}

\* a publisher run that holds the lock, and the refresh about to start
EngInit ==
  /\ sheet \in EngSheets
  /\ config = ShippedConfig
  /\ props \in {q \in Properties : q.credentials}
  /\ trigger = "serial"
  /\ now = T0
  /\ lockHolder = 1
  /\ pc = [p \in Invocations |-> IF p = 1 THEN "find" ELSE "idle"]
  /\ loc = [p \in Invocations |->
              IF p = 1 THEN [InitLoc EXCEPT !.hasLock = TRUE] ELSE InitLoc]
  /\ calls = [p \in Invocations |-> <<>>]
  /\ nextId = FirstId
  /\ runs = 1
  /\ outcome = [p \in Invocations |-> IF p = 1 THEN "running" ELSE "none"]
  /\ preview = NoPreview
  /\ counted = NoCount
  /\ refresh = NoRefresh

RefreshNext == Collect \/ Request \/ Backoff

EngNext ==
  \/ Collect
  \/ Request
  \/ Backoff
  \/ \E p \in Invocations :
       \/ FindTarget(p)
       \/ SingleStart(p)
       \/ SingleUpload(p)
       \/ SinglePost(p)
       \/ SingleNote(p)
       \/ ThreadFind(p)
       \/ ThreadRowStart(p)
       \/ ThreadPost(p)
       \/ ThreadSleep(p)
       \/ ThreadNote(p)
       \/ SetValue(p)
       \/ Finally(p)
       \/ Exit(p)

\* the script goes on running while it has a step to take
EngSpec == EngInit /\ [][EngNext]_vars /\ WF_vars(RefreshNext)

-----------------------------------------------------------------------------
\* the fields that neither the publishers nor the refresh own
AuthoredColumns ==
  {colContent, colCharCount, colImage, colNoteUrl, colDay, colHour, colMinute,
   colThreadGroupId}

(* C34: no step removes a row or changes a row's content, image, reply      *)
(* link, schedule or group id; a step of a publisher changes only status    *)
(* and result fields; a step of the engagement refresh changes only         *)
(* engagement fields, and only of rows whose status is posted when it       *)
(* writes them.                                                             *)
C34_FieldOwnership ==
  [][/\ Len(sheet') = Len(sheet)
     /\ \A k \in 1..Len(sheet) :
          /\ \A c \in AuthoredColumns : sheet'[k][c] = sheet[k][c]
          /\ refresh' = refresh
               => \A c \in EngagementColumns : sheet'[k][c] = sheet[k][c]
          /\ refresh' # refresh
               => /\ sheet'[k][colStatus] = sheet[k][colStatus]
                  /\ sheet'[k][colPostedUrl] = sheet[k][colPostedUrl]
                  /\ sheet'[k] # sheet[k]
                       => Normal(sheet[k][colStatus]) = statusPosted]_vars


(* C39: once processEngagementUpdates_ has started its loop over a finite   *)
(* list of targets it returns, whatever the API answers, a rate-limit       *)
(* answer to every request of a target included.                            *)
C39_RefreshTerminates == (refresh.pc = "loop") ~> (refresh.pc = "done")

(* C40: when processEngagementUpdates_ has returned, successCount plus      *)
(* failCount is the number of targets and successCount is the number of     *)
(* targets whose engagement fields were written.                            *)
C40_CountsMatchTargets ==
  refresh.pc = "done" /\ refresh.successCount < MaxCount
  /\ refresh.failCount < MaxCount
    => /\ refresh.successCount + refresh.failCount = Len(refresh.targetRows)
       /\ refresh.successCount = Cardinality(refresh.written)
=============================================================================
